---- MODULE Spec2Model ----
(***************************************************************************)
(* PokeAlarm Manager (src/PokeAlarm/Manager.py): the per-kind event        *)
(* processors, the geofence matching, the channel resolution and the       *)
(* dispatch, over the Manager's configuration, rule tables and cache.      *)
(*                                                                         *)
(* Names (geofence names, filter names) are strings that the code splits   *)
(* at '-'.  A name is modelled as the sequence of its segments:            *)
(* "North-Park" is <<"North", "Park">>, so that  '-' in name  is           *)
(* Len(name) > 1  and  name.split('-')[i]  is the one-segment name         *)
(* <<name[i+1]>>.                                                          *)
(***************************************************************************)
EXTENDS Integers, Sequences, FiniteSets, TLC

\* ------------------------------------------------------------- bounds
MaxTime == 1        \* the clock runs over 0..MaxTime
MaxPoint == 2       \* coordinates are the points 0..MaxPoint
MaxId == 1          \* entity ids (encounters, gyms, cells) are 1..MaxId
MaxRules == 1       \* rules added per kind
MaxCfgDiff == 1     \* settings in which a configuration differs from BaseCfg
MaxPuts == 3        \* update() calls

\* ------------------------------------------------------------- values
\* an optional value is a sequence of length at most one: None, or Some(x)
None == <<>>
Some(x) == <<x>>
\* PokeAlarm.Unknown: the placeholder of a field nobody has filled in
Unknown == "?"
UnknownName == <<"?">>
\* team ids, as the strings of the numbers the upstream sends; 0 is neutral
Neutral == "0"

Kinds == {"monster", "stop", "gym", "egg", "raid", "weather"}
ExpiringKinds == {"monster", "egg", "raid"}
Points == 0..MaxPoint
Ids == 1..MaxId
Clock == 0..MaxTime
Times == 0..(MaxTime + 1)
Teams == {"0", "1", "2"}
Attrs == {16, 150}
Conditions == {"RAIN", "CLOUDY"}

\* names
All == <<"All">>
Lake == <<"Lake">>
NorthPark == <<"North", "Park">>
Park == <<"Park">>
CityAll == <<"City", "All">>
Nowhere == <<"Nowhere">>
AllowAll == <<"all">>
Rare == <<"rare">>
Rare2 == <<"rare", "2">>
Common == <<"common">>

\* str.split('-')[i] and '-' in str, on a name
Segment(name, i) == <<name[i]>>
LastSegment(name) == <<name[Len(name)]>>
Hyphenated(name) == Len(name) > 1

RECURSIVE Flatten(_)
Flatten(ss) == IF ss = <<>> THEN <<>> ELSE Head(ss) \o Flatten(Tail(ss))

Range(s) == {s[i] : i \in DOMAIN s}

\* ------------------------------------------------------ configurations
\* geofence files: an ordered mapping name -> geofence; a geofence is given by
\* the points its contains() accepts and the weather cells its check_overlap()
\* accepts
GeofenceFiles ==
    { None,
      Some(<< [name |-> NorthPark, area |-> {1, 2}, cells |-> {1}],
               [name |-> Lake, area |-> {2}, cells |-> {1}] >>),
      Some(<< [name |-> Lake, area |-> {1}, cells |-> {}] >>),
      Some(<< [name |-> CityAll, area |-> {1}, cells |-> {1}] >>) }

\* filter sections: an ordered mapping name -> filter; a filter is given by the
\* event attributes its check_event() accepts, its geofence allowlist and its
\* custom fields (a mapping, as the set of its <<key, value>> pairs)
FilterSections ==
    { << [name |-> Rare, passes |-> {150}, geofences |-> None,
          custom_dts |-> {<<"note", "rare">>}],
         [name |-> Rare2, passes |-> {16, 150}, geofences |-> Some(<<Nowhere, Lake>>),
          custom_dts |-> {<<"note", "rare2">>}] >>,
      << [name |-> Common, passes |-> {16}, geofences |-> Some(<<AllowAll>>),
          custom_dts |-> {<<"note", "common">>}] >>,
      << >> }

\* channel files: geofence name -> filter base name -> channel id
ChannelFiles ==
    { [g \in {NorthPark, Lake, Park, All, CityAll} |->
          [b \in {"rare", "common"} |-> <<"ch", g, b>>]],
      [g \in {NorthPark, Lake} |-> [b \in {"rare"} |-> <<"ch", g, b>>]],
      [g \in {All} |-> [b \in {"common"} |-> <<"ch", g, b>>]] }

\* alarm files: the names of the active alarms, in the order of the mapping
AlarmFiles == { <<"a1", "a2">>, <<"a1">> }

\* what an upstream producer is set up to send: the kinds of event, the
\* values of the optional facility fields (Unknown when it leaves them out),
\* and the places and attributes its events have
Upstreams ==
    { [kinds |-> {k}, gym_names |-> {Unknown}, current_teams |-> {Unknown},
       points |-> Points, attrs |-> Attrs] :
        k \in Kinds }

BaseCfg ==
    [ enabled |-> Kinds,
      ignore_neutral |-> FALSE,
      time_limit |-> 1,
      location |-> Some(0),
      geofences |-> Some(<< [name |-> NorthPark, area |-> {1, 2}, cells |-> {1}],
                            [name |-> Lake, area |-> {2}, cells |-> {1}] >>),
      filters |-> << [name |-> Rare, passes |-> {150}, geofences |-> None,
                      custom_dts |-> {<<"note", "rare">>}],
                     [name |-> Rare2, passes |-> {16, 150},
                      geofences |-> Some(<<Nowhere, Lake>>),
                      custom_dts |-> {<<"note", "rare2">>}] >>,
      channel_id |-> [g \in {NorthPark, Lake, Park, All, CityAll} |->
                         [b \in {"rare", "common"} |-> <<"ch", g, b>>]],
      alarms |-> <<"a1", "a2">> ]

AllCfgs ==
    [ enabled : {Kinds \ d : d \in {{}} \cup {{k} : k \in Kinds}},
      ignore_neutral : BOOLEAN,
      time_limit : {0, 1},
      location : {None, Some(0)},
      geofences : GeofenceFiles,
      filters : FilterSections,
      channel_id : ChannelFiles,
      alarms : AlarmFiles ]

CfgFields == {"enabled", "ignore_neutral", "time_limit", "location",
              "geofences", "filters", "channel_id", "alarms"}

CfgDiff(c) == Cardinality({f \in CfgFields : c[f] # BaseCfg[f]})

Configs == {c \in AllCfgs : CfgDiff(c) <= MaxCfgDiff}

\* ------------------------------------------------------------- events
\* An event as its constructor leaves it: the payload parsed from the upstream
\* data.  lat/lng are one point; attr is the attribute the kind's filters test.
MonEvents ==
    [kind : {"monster"}, enc_id : Ids, monster_id : Attrs,
     disappear_time : Times, pos : Points]
StopEvents ==
    [kind : {"stop"}, stop_id : Ids, attr : Attrs, expiration : Times, pos : Points]
GymEvents ==
    [kind : {"gym"}, gym_id : Ids, new_team_id : Teams, attr : Attrs, pos : Points,
     gym_name : {Unknown, "Gym"}]
EggEvents ==
    [kind : {"egg"}, gym_id : Ids, hatch_time : Times, attr : Attrs, pos : Points,
     gym_name : {Unknown, "Gym"}, current_team_id : {Unknown} \cup Teams]
RaidEvents ==
    [kind : {"raid"}, gym_id : Ids, raid_end : Times, attr : Attrs, pos : Points,
     gym_name : {Unknown, "Gym"}, current_team_id : {Unknown} \cup Teams]
WeatherEvents ==
    [kind : {"weather"}, weather_cell_id : Ids, condition : Conditions, attr : Attrs]

\* the processing-scratch fields of an event, as the constructors set them
NewScratch ==
    [ distance |-> None, direction |-> None, geofence |-> UnknownName,
      geofence_list |-> <<>>, channel_id |-> <<Unknown>>, custom_dts |-> {},
      gym_name |-> Unknown, team |-> Unknown ]

\* ---------------------------------------------------------------- state
VARIABLES
    cfg,          \* the Manager's settings, fixed by the constructor
    upstream,     \* what the upstream producer sends
    rules,        \* kind -> the rule table, in insertion order
    now,          \* datetime.utcnow()
    expiration,   \* cache: expiring kind -> id -> optional stored expiration
    gym_team,     \* cache: gym id -> team id (Unknown until observed)
    gym_info,     \* cache: gym id -> name (Unknown until observed)
    cell_weather, \* cache: cell id -> condition (Unknown until observed)
    last,         \* the last processor call: its event, what it read, what it did
    gym_calls,    \* gym id -> the last two process_gym calls for that gym
    rule_call,    \* the last add_*_rule call: its arguments, the tables it
                  \* found, the error it raised
    queue,        \* self.__queue: the objects put and not yet got, each with
                  \* the number of its put
    event_set,    \* self.__event is set
    pc,           \* where run() is: "top" (at the head of its loop), "get",
                  \* "process", "save", "done", or "crashed" / "killed"
                  \* when an exception ended it
    last_clean,   \* run()'s last_clean: when the cache was last swept
    current,      \* the object run() got and is processing, if any
    trace,        \* what happened so far, in order
    dispatches    \* the _trigger_* calls of the processor call under way (or
                  \* of the last one), in order: the alarm names each was
                  \* given and its delivery tasks

\* the run loop's variables
loop == <<queue, event_set, pc, last_clean, current, trace>>

vars == <<cfg, upstream, rules, now, expiration, gym_team, gym_info,
          cell_weather, last, gym_calls, rule_call, loop, dispatches>>

\* ---------------------------------------------------------------- cache
\* monster_expiration(id) / egg_expiration(id) / raid_expiration(id): the stored
\* expiration, an entry whose time has passed counting as absent
cache_get_expiration(kind, id) ==
    LET v == expiration[kind][id]
    IN  IF v # None /\ v[1] < now THEN None ELSE v

\* monster_expiration(id, t) / egg_expiration(id, t) / raid_expiration(id, t)
cache_set_expiration(exp, kind, id, t) ==
    [exp EXCEPT ![kind][id] = Some(t)]

\* gym_name(id, name): store the name unless it is unknown, return the stored one
cache_gym_name(info, id, name) ==
    IF name # Unknown THEN [info EXCEPT ![id] = name] ELSE info

\* clean_and_save(): drop the expirations that lie in the past
cache_clean(exp) ==
    [k \in ExpiringKinds |->
        [i \in Ids |-> IF exp[k][i] # None /\ exp[k][i][1] < now
                       THEN None ELSE exp[k][i]]]

\* ------------------------------------------------------------- helpers
HasGeofences == cfg.geofences # None
Geofences == cfg.geofences[1]
GeofenceNames == {Geofences[i].name : i \in DOMAIN Geofences}
GeofenceNamed(name) == CHOOSE g \in Range(Geofences) : g.name = name

\* get_earth_dist / get_cardinal_dir of a point and the Manager's location
get_earth_dist(pos, loc) == IF pos >= loc THEN pos - loc ELSE loc - pos
get_cardinal_dir(pos, loc) == IF pos >= loc THEN "N" ELSE "S"

\* "Calculate distance and direction": only with a location set
with_distance(e, pos) ==
    IF cfg.location # None
    THEN [e EXCEPT !.distance = Some(get_earth_dist(pos, cfg.location[1])),
                   !.direction = Some(get_cardinal_dir(pos, cfg.location[1]))]
    ELSE e

\* the filter of that name in the kind's section (every kind's section holds
\* the filters of cfg.filters), None when there is none
FilterNames == [i \in DOMAIN cfg.filters |-> cfg.filters[i].name]
get_filter(f_name) ==
    IF f_name \in Range(FilterNames)
    THEN Some(CHOOSE f \in Range(cfg.filters) : f.name = f_name)
    ELSE None

\* Filter.check_event
check_event(f, attr) == attr \in f.passes

\* ---------------------------------------------------- geofence matching
\* match_geofences: the first geofence containing the point
RECURSIVE match_geofences_from(_, _, _)
match_geofences_from(i, pos, e) ==
    IF i > Len(Geofences) THEN [ok |-> FALSE, e |-> e]
    ELSE LET gf == Geofences[i]
             gf_name == gf.name
         IN  IF pos \in gf.area
             THEN [ok |-> TRUE,
                   e |-> [e EXCEPT !.geofence_list =
                            @ \o <<gf_name, All>>
                              \o (IF Hyphenated(gf_name)
                                  THEN <<Segment(gf_name, 2)>> ELSE <<>>)]]
             ELSE match_geofences_from(i + 1, pos, e)

\* a lookup that records the matched name alone
match_geofences_name_only(pos, e) ==
    IF ~HasGeofences THEN [ok |-> FALSE, e |-> e]
    ELSE LET r == match_geofences_from(1, pos, e)
         IN  IF ~r.ok THEN r
             ELSE [ok |-> TRUE,
                   e |-> [e EXCEPT !.geofence_list =
                            @ \o <<r.e.geofence_list[Len(@) + 1]>>]]

match_geofences(pos, e) ==
    IF ~HasGeofences THEN [ok |-> FALSE, e |-> e]
    ELSE match_geofences_from(1, pos, e)

\* check_geofences: the first geofence of the filter's allowlist containing
\* the point
\* f.reject(e, "not in geofences"): the rejection the filter records
NotInGeofences == <<"not in geofences">>

\* a loop that gives up at a name that is no geofence
RECURSIVE check_targets_stops_at_missing(_, _, _, _)
check_targets_stops_at_missing(targets, i, pos, e) ==
    IF i > Len(targets) \/ targets[i] \notin GeofenceNames
    THEN [ok |-> FALSE, e |-> e, reject |-> NotInGeofences]
    ELSE IF pos \in GeofenceNamed(targets[i]).area
    THEN [ok |-> TRUE, e |-> [e EXCEPT !.geofence = targets[i]],
          reject |-> None]
    ELSE check_targets_stops_at_missing(targets, i + 1, pos, e)

RECURSIVE check_targets(_, _, _, _)
check_targets(targets, i, pos, e) ==
    IF i > Len(targets) THEN [ok |-> FALSE, e |-> e, reject |-> NotInGeofences]
    ELSE LET name == targets[i]
         IN  IF name \notin GeofenceNames
             THEN check_targets(targets, i + 1, pos, e)
             ELSE IF pos \in GeofenceNamed(name).area
             THEN [ok |-> TRUE, e |-> [e EXCEPT !.geofence = name],
                   reject |-> None]
             ELSE check_targets(targets, i + 1, pos, e)

check_geofences(f, pos, e) ==
    IF ~HasGeofences \/ f.geofences = None
    THEN [ok |-> TRUE, e |-> e, reject |-> None]
    ELSE LET given == f.geofences[1]
             targets == IF Len(given) = 1 /\ AllowAll \in Range(given)
                        THEN [i \in DOMAIN Geofences |-> Geofences[i].name]
                        ELSE given
         IN  check_targets(targets, 1, pos, e)

\* match_weather_geofences: every geofence the cell overlaps
RECURSIVE match_weather_from(_, _, _)
match_weather_from(i, cell, e) ==
    IF i > Len(Geofences) THEN e
    ELSE LET gf_name == Geofences[i].name
         IN  IF LastSegment(gf_name) \notin Range(e.geofence_list)
             THEN IF cell \in Geofences[i].cells
                  THEN match_weather_from(i + 1, cell,
                         [e EXCEPT !.geofence_list =
                            @ \o <<gf_name>>
                              \o (IF Hyphenated(gf_name)
                                  THEN <<Segment(gf_name, 2)>> ELSE <<>>)])
                  ELSE match_weather_from(i + 1, cell, e)
             ELSE match_weather_from(i + 1, cell, e)

\* an accumulation that finds no geofence
match_weather_geofences_none(cell, e) == [ok |-> FALSE, e |-> e]

match_weather_geofences(cell, e) ==
    IF ~HasGeofences THEN [ok |-> FALSE, e |-> e]
    ELSE LET e2 == match_weather_from(1, cell, e)
         IN  IF e2.geofence_list = <<>> THEN [ok |-> FALSE, e |-> e2]
             ELSE [ok |-> TRUE,
                   e |-> [e2 EXCEPT !.geofence_list = @ \o <<All>>]]

\* get_channel_id
get_channel_id(e, filter_name, geofence_name) ==
    LET api_filter_name == filter_name[1]
    IN  IF /\ geofence_name \in DOMAIN cfg.channel_id
           /\ api_filter_name \in DOMAIN cfg.channel_id[geofence_name]
        THEN [ok |-> TRUE,
              e |-> [e EXCEPT !.channel_id =
                        cfg.channel_id[geofence_name][api_filter_name]]]
        ELSE [ok |-> FALSE, e |-> e]

\* ------------------------------------------------------------- dispatch
\* the keys and the value of a key in a mapping given by its pairs
Keys(pairs) == {p[1] : p \in pairs}
ValueOf(pairs, k) == (CHOOSE p \in pairs : p[1] = k)[2]

\* a data bag in which a custom field replaces the built-in field of its name
dts_update_custom_wins(custom, built_in) ==
    [k \in Keys(custom) \cup DOMAIN built_in |->
        IF k \in Keys(custom) THEN ValueOf(custom, k) ELSE built_in[k]]

\* dts = custom.copy(); dts.update(built_in)
dts_update(custom, built_in) ==
    [k \in Keys(custom) \cup DOMAIN built_in |->
        IF k \in DOMAIN built_in THEN built_in[k] ELSE ValueOf(custom, k)]

\* the built-in fields that generate_dts takes from the scratch fields
BuiltIn(e) == [k \in DOMAIN e \ {"custom_dts"} |-> e[k]]

\* generate_dts: the data bag, a copy of the event's custom fields updated
\* with the built-in fields, from the scratch fields as they are now
generate_dts(e) == dts_update(e.custom_dts, BuiltIn(e))

\* a spawn loop that ends at the first name without an alarm
RECURSIVE KnownPrefix(_)
KnownPrefix(names) ==
    IF names = <<>> \/ Head(names) \notin Range(cfg.alarms) THEN <<>>
    ELSE <<Head(names)>> \o KnownPrefix(Tail(names))
trigger_stops_at_unknown(e, r_name, f_name, geofence_name, alarm_names) ==
    [ rule |-> r_name, filter |-> f_name, geofence_name |-> geofence_name,
      dts |-> generate_dts(e), alarms |-> KnownPrefix(alarm_names) ]

\* _trigger_*: one delivery task per alarm name that resolves to an alarm.
\* rule, filter and geofence_name record the loop variables of the caller.
trigger(e, r_name, f_name, geofence_name, alarm_names) ==
    [ rule |-> r_name, filter |-> f_name, geofence_name |-> geofence_name,
      dts |-> generate_dts(e),
      alarms |-> SelectSeq(alarm_names, LAMBDA n : n \in Range(cfg.alarms)) ]

\* ------------------------------------------------------ rule evaluation
\* "If no rules, default to all"
default_rule ==
    [name |-> <<"default", 0>>, filter_names |-> FilterNames,
     alarm_names |-> cfg.alarms]

\* a processor that evaluates the rule table as it is, also when it is empty
applicable_rules_no_default(table, kind) == table[kind]

applicable_rules(table, kind) ==
    IF Len(table[kind]) = 0 THEN <<default_rule>> ELSE table[kind]

\* The loops thread st = [e: the event's scratch fields, out: the triggers so
\* far, err: an exception was raised].

\* body of "for geofence_name in e.geofence_list" (monster, stop, egg, raid,
\* weather)
\* a body that gives up on the whole event at the first missing channel
geofence_step_abort_on_missing(rule, f, st, geofence_name) ==
    LET ch == get_channel_id(st.e, f.name, geofence_name)
    IN  IF ~ch.ok THEN [st EXCEPT !.err = TRUE]
        ELSE [st EXCEPT !.e = ch.e,
                        !.out = Append(@, trigger(ch.e, rule.name, f.name,
                                         geofence_name, rule.alarm_names))]

\* a body that reports the name being resolved as the event's geofence
geofence_step_reports_name(rule, f, st, geofence_name) ==
    LET ch == get_channel_id(st.e, f.name, geofence_name)
    IN  IF ~ch.ok THEN st
        ELSE LET e2 == [ch.e EXCEPT !.custom_dts = f.custom_dts,
                                    !.geofence = geofence_name]
             IN  [st EXCEPT !.e = e2,
                            !.out = Append(@, trigger(e2, rule.name, f.name,
                                             geofence_name, rule.alarm_names))]

\* a body that dispatches with the channel id left by an earlier pair when
\* the channel map has no entry for this one
geofence_step_keeps_channel(rule, f, st, geofence_name) ==
    IF ~HasGeofences THEN [st EXCEPT !.err = TRUE]
    ELSE LET ch == get_channel_id(st.e, f.name, geofence_name)
             e2 == [ch.e EXCEPT
                      !.custom_dts = f.custom_dts,
                      !.geofence = IF geofence_name \notin GeofenceNames
                                   THEN ch.e.geofence_list[1]
                                   ELSE geofence_name]
         IN  [st EXCEPT !.e = e2,
                        !.out = Append(@, trigger(e2, rule.name, f.name,
                                         geofence_name, rule.alarm_names))]

geofence_step(rule, f, st, geofence_name) ==
    LET ch == get_channel_id(st.e, f.name, geofence_name)
    IN  IF ~ch.ok THEN st
        ELSE IF ~HasGeofences THEN [st EXCEPT !.e = ch.e, !.err = TRUE]
        ELSE LET e2 == [ch.e EXCEPT
                          !.custom_dts = f.custom_dts,
                          !.geofence = IF geofence_name \notin GeofenceNames
                                       THEN ch.e.geofence_list[1]
                                       ELSE geofence_name]
             IN  [st EXCEPT !.e = e2,
                            !.out = Append(@, trigger(e2, rule.name, f.name,
                                             geofence_name, rule.alarm_names))]

RECURSIVE geofence_loop(_, _, _, _)
geofence_loop(rule, f, st, i) ==
    IF st.err \/ i > Len(st.e.geofence_list) THEN st
    ELSE geofence_loop(rule, f,
             geofence_step(rule, f, st, st.e.geofence_list[i]), i + 1)

\* body of "for f_name in rule.filter_names" (monster, stop, egg, raid, weather)
filter_step(rule, attr, st, f_name) ==
    LET f == get_filter(f_name)
    IN  IF f = None THEN [st EXCEPT !.err = TRUE]
        ELSE IF ~check_event(f[1], attr) THEN st
        ELSE geofence_loop(rule, f[1], st, 1)

\* a filter loop that leaves the rule at the first filter that fails
RECURSIVE filter_loop_breaks(_, _, _, _)
filter_loop_breaks(rule, attr, st, i) ==
    IF st.err \/ i > Len(rule.filter_names) THEN st
    ELSE LET f == get_filter(rule.filter_names[i])
         IN  IF f # None /\ ~check_event(f[1], attr) THEN st
             ELSE filter_loop_breaks(rule, attr,
                      filter_step(rule, attr, st, rule.filter_names[i]), i + 1)

RECURSIVE filter_loop(_, _, _, _)
filter_loop(rule, attr, st, i) ==
    IF st.err \/ i > Len(rule.filter_names) THEN st
    ELSE filter_loop(rule, attr,
             filter_step(rule, attr, st, rule.filter_names[i]), i + 1)

RECURSIVE rule_loop(_, _, _, _)
rule_loop(rs, attr, st, i) ==
    IF st.err \/ i > Len(rs) THEN st
    ELSE rule_loop(rs, attr, filter_loop(rs[i], attr, st, 1), i + 1)

\* the filter loop of process_gym without the break after _trigger_gym
RECURSIVE gym_filter_loop_no_break(_, _, _, _)
gym_filter_loop_no_break(rule, gym, st, i) ==
    IF st.err \/ i > Len(rule.filter_names) THEN st
    ELSE LET f == get_filter(rule.filter_names[i])
         IN  IF f = None THEN [st EXCEPT !.err = TRUE]
             ELSE LET cg == IF check_event(f[1], gym.attr)
                            THEN check_geofences(f[1], gym.pos, st.e)
                            ELSE [ok |-> FALSE, e |-> st.e]
                  IN  IF ~cg.ok
                      THEN gym_filter_loop_no_break(rule, gym, st, i + 1)
                      ELSE LET e2 == [cg.e EXCEPT !.custom_dts = f[1].custom_dts]
                           IN  gym_filter_loop_no_break(rule, gym,
                                   [st EXCEPT
                                      !.e = e2,
                                      !.out = Append(@, trigger(e2, rule.name,
                                                 f[1].name, e2.geofence,
                                                 rule.alarm_names))],
                                   i + 1)

\* "for f_name in rule.filter_names" of process_gym: the first filter that
\* passes triggers, and ends the rule
RECURSIVE gym_filter_loop(_, _, _, _)
gym_filter_loop(rule, gym, st, i) ==
    IF st.err \/ i > Len(rule.filter_names) THEN st
    ELSE LET f == get_filter(rule.filter_names[i])
         IN  IF f = None THEN [st EXCEPT !.err = TRUE]
             ELSE LET cg == IF check_event(f[1], gym.attr)
                            THEN check_geofences(f[1], gym.pos, st.e)
                            ELSE [ok |-> FALSE, e |-> st.e]
                  IN  IF ~cg.ok THEN gym_filter_loop(rule, gym, st, i + 1)
                      ELSE LET e2 == [cg.e EXCEPT !.custom_dts = f[1].custom_dts]
                           IN  [st EXCEPT
                                  !.e = e2,
                                  !.out = Append(@, trigger(e2, rule.name,
                                             f[1].name, e2.geofence,
                                             rule.alarm_names))]

RECURSIVE gym_rule_loop(_, _, _, _)
gym_rule_loop(rs, gym, st, i) ==
    IF st.err \/ i > Len(rs) THEN st
    ELSE gym_rule_loop(rs, gym, gym_filter_loop(rs[i], gym, st, 1), i + 1)

Start(e) == [e |-> e, out |-> <<>>, err |-> FALSE]

\* ----------------------------------------------------------- processors
\* What one processor call leaves behind: the cache, and the record of the
\* call: its event, the time, what the cache held for the entity when the
\* call began (seen: the stored expiration, old_team: the team), the gate that
\* dropped the event ("rules" when it reached rule evaluation, "error" when
\* rule evaluation raised), the event's scratch fields at the end, and the
\* triggers in order.
Outcome(ev, exp, team, info, weather, gate, e, out) ==
    [ exp |-> exp, team |-> team, info |-> info, weather |-> weather,
      call |-> [ ev |-> ev, at |-> now,
                 seen |-> IF ev.kind = "monster"
                          THEN expiration["monster"][ev.enc_id]
                          ELSE IF ev.kind \in {"egg", "raid"}
                          THEN expiration[ev.kind][ev.gym_id]
                          ELSE None,
                 old_team |-> IF ev.kind \in {"gym", "egg", "raid"}
                              THEN gym_team[ev.gym_id] ELSE Unknown,
                 gate |-> gate, e |-> e, out |-> out ] ]

Evaluated(ev, exp, team, info, weather, st) ==
    Outcome(ev, exp, team, info, weather,
            IF st.err THEN "error" ELSE "rules", st.e, st.out)

\* a processor without the check of its kind's switch
notifications_never_disabled(kind) == FALSE

\* "Make sure that monsters are enabled", and the same for the other kinds
notifications_disabled(kind) == kind \notin cfg.enabled

\* process_monster without the early return of the dedup check
monster_dedup_skipped(mon) == FALSE
\* process_monster with the time check off by one
monster_too_late_inclusive(mon) == mon.disappear_time - now <= cfg.time_limit

\* a dedup check that takes any stored expiration, passed or not
monster_any_entry(mon) == expiration["monster"][mon.enc_id] # None

\* the gates of process_monster
monster_previously_processed(mon) ==
    cache_get_expiration("monster", mon.enc_id) # None
monster_too_late(mon) == mon.disappear_time - now < cfg.time_limit

\* process_monster storing the expiration only when the event has passed
\* the time gate and the geofence gate
process_monster_records_late(table, mon) ==
    IF notifications_disabled("monster")
    THEN Outcome(mon, expiration, gym_team, gym_info, cell_weather,
                 "disabled", NewScratch, <<>>)
    ELSE IF monster_previously_processed(mon)
    THEN Outcome(mon, expiration, gym_team, gym_info, cell_weather,
                 "dedup", NewScratch, <<>>)
    ELSE LET exp2 == cache_set_expiration(expiration, "monster", mon.enc_id,
                                          mon.disappear_time)
         IN  IF monster_too_late(mon)
             THEN Outcome(mon, expiration, gym_team, gym_info, cell_weather,
                          "time", NewScratch, <<>>)
             ELSE LET e1 == with_distance(NewScratch, mon.pos)
                      m == match_geofences(mon.pos, e1)
                  IN  IF ~m.ok
                      THEN Outcome(mon, expiration, gym_team, gym_info,
                                   cell_weather, "geofence", m.e, <<>>)
                      ELSE Evaluated(mon, exp2, gym_team, gym_info, cell_weather,
                               rule_loop(applicable_rules(table, "monster"),
                                         mon.monster_id, Start(m.e), 1))

process_monster_result(table, mon) ==
    IF notifications_disabled("monster")
    THEN Outcome(mon, expiration, gym_team, gym_info, cell_weather,
                 "disabled", NewScratch, <<>>)
    ELSE IF monster_previously_processed(mon)
    THEN Outcome(mon, expiration, gym_team, gym_info, cell_weather,
                 "dedup", NewScratch, <<>>)
    ELSE LET exp2 == cache_set_expiration(expiration, "monster", mon.enc_id,
                                          mon.disappear_time)
         IN  IF monster_too_late(mon)
             THEN Outcome(mon, exp2, gym_team, gym_info, cell_weather,
                          "time", NewScratch, <<>>)
             ELSE LET e1 == with_distance(NewScratch, mon.pos)
                      m == match_geofences(mon.pos, e1)
                  IN  IF ~m.ok
                      THEN Outcome(mon, exp2, gym_team, gym_info, cell_weather,
                                   "geofence", m.e, <<>>)
                      ELSE Evaluated(mon, exp2, gym_team, gym_info, cell_weather,
                               rule_loop(applicable_rules(table, "monster"),
                                         mon.monster_id, Start(m.e), 1))

\* process_stop with the geofence matching of the other processors
process_stop_matching(table, stop) ==
    IF notifications_disabled("stop")
    THEN Outcome(stop, expiration, gym_team, gym_info, cell_weather,
                 "disabled", NewScratch, <<>>)
    ELSE LET e1 == with_distance(NewScratch, stop.pos)
             m == match_geofences(stop.pos, e1)
         IN  Evaluated(stop, expiration, gym_team, gym_info, cell_weather,
                 rule_loop(applicable_rules(table, "stop"), stop.attr,
                           Start(m.e), 1))

process_stop_result(table, stop) ==
    IF notifications_disabled("stop")
    THEN Outcome(stop, expiration, gym_team, gym_info, cell_weather,
                 "disabled", NewScratch, <<>>)
    ELSE LET e1 == with_distance(NewScratch, stop.pos)
         IN  Evaluated(stop, expiration, gym_team, gym_info, cell_weather,
                 rule_loop(applicable_rules(table, "stop"), stop.attr, Start(e1), 1))

\* process_gym without the early return of the change check
gym_no_change_skipped(gym, old_team_id) == FALSE

\* process_gym without the early return for changes to neutral
gym_neutral_not_ignored(gym) == FALSE

\* the gates of process_gym
gym_to_neutral(gym) == cfg.ignore_neutral /\ gym.new_team_id = Neutral
gym_no_change(gym, old_team_id) == gym.new_team_id = old_team_id

process_gym_result(table, gym) ==
    LET info2 == cache_gym_name(gym_info, gym.gym_id, gym.gym_name)
        e0 == [NewScratch EXCEPT !.gym_name = info2[gym.gym_id],
                                 !.team = gym.new_team_id]
    IN  IF gym_to_neutral(gym)
        THEN Outcome(gym, expiration, gym_team, info2, cell_weather,
                     "neutral", e0, <<>>)
        ELSE LET old_team_id == gym_team[gym.gym_id]
                 team2 == [gym_team EXCEPT ![gym.gym_id] = gym.new_team_id]
             IN  IF notifications_disabled("gym")
                 THEN Outcome(gym, expiration, team2, info2, cell_weather,
                              "disabled", e0, <<>>)
                 ELSE IF gym_no_change(gym, old_team_id)
                 THEN Outcome(gym, expiration, team2, info2, cell_weather,
                              "nochange", e0, <<>>)
                 ELSE Evaluated(gym, expiration, team2, info2, cell_weather,
                          gym_rule_loop(applicable_rules(table, "gym"), gym,
                                        Start(with_distance(e0, gym.pos)), 1))

\* the gates of process_egg
egg_previously_processed(egg) ==
    cache_get_expiration("egg", egg.gym_id) # None
egg_too_late(egg) == egg.hatch_time - now < cfg.time_limit

process_egg_result(table, egg) ==
    LET info2 == cache_gym_name(gym_info, egg.gym_id, egg.gym_name)
        e0 == [NewScratch EXCEPT
                 !.gym_name = info2[egg.gym_id],
                 !.team = IF egg.current_team_id = Unknown
                          THEN gym_team[egg.gym_id] ELSE egg.current_team_id]
    IN  IF notifications_disabled("egg")
        THEN Outcome(egg, expiration, gym_team, info2, cell_weather,
                     "disabled", e0, <<>>)
        ELSE IF egg_previously_processed(egg)
        THEN Outcome(egg, expiration, gym_team, info2, cell_weather,
                     "dedup", e0, <<>>)
        ELSE LET exp2 == cache_set_expiration(expiration, "egg", egg.gym_id,
                                              egg.hatch_time)
             IN  IF egg_too_late(egg)
                 THEN Outcome(egg, exp2, gym_team, info2, cell_weather,
                              "time", e0, <<>>)
                 ELSE LET m == match_geofences(egg.pos,
                                               with_distance(e0, egg.pos))
                      IN  IF ~m.ok
                          THEN Outcome(egg, exp2, gym_team, info2, cell_weather,
                                       "geofence", m.e, <<>>)
                          ELSE Evaluated(egg, exp2, gym_team, info2,
                                   cell_weather,
                                   rule_loop(applicable_rules(table, "egg"), egg.attr,
                                             Start(m.e), 1))

\* the gates of process_raid
raid_previously_processed(raid) ==
    cache_get_expiration("raid", raid.gym_id) # None
raid_too_late(raid) == raid.raid_end - now < cfg.time_limit

\* process_raid storing the team of the event as the gym's team
process_raid_stores_team(table, raid) ==
    LET info2 == cache_gym_name(gym_info, raid.gym_id, raid.gym_name)
        e0 == [NewScratch EXCEPT
                 !.gym_name = info2[raid.gym_id],
                 !.team = IF raid.current_team_id = Unknown
                          THEN gym_team[raid.gym_id] ELSE raid.current_team_id]
        team2 == [gym_team EXCEPT ![raid.gym_id] = e0.team]
    IN  IF notifications_disabled("raid")
        THEN Outcome(raid, expiration, team2, info2, cell_weather,
                     "disabled", e0, <<>>)
        ELSE IF raid_previously_processed(raid)
        THEN Outcome(raid, expiration, team2, info2, cell_weather,
                     "dedup", e0, <<>>)
        ELSE LET exp2 == cache_set_expiration(expiration, "raid", raid.gym_id,
                                              raid.raid_end)
             IN  IF raid_too_late(raid)
                 THEN Outcome(raid, exp2, team2, info2, cell_weather,
                              "time", e0, <<>>)
                 ELSE LET m == match_geofences(raid.pos,
                                               with_distance(e0, raid.pos))
                      IN  IF ~m.ok
                          THEN Outcome(raid, exp2, team2, info2,
                                       cell_weather, "geofence", m.e, <<>>)
                          ELSE Evaluated(raid, exp2, team2, info2,
                                   cell_weather,
                                   rule_loop(applicable_rules(table, "raid"),
                                             raid.attr, Start(m.e), 1))

process_raid_result(table, raid) ==
    LET info2 == cache_gym_name(gym_info, raid.gym_id, raid.gym_name)
        e0 == [NewScratch EXCEPT
                 !.gym_name = info2[raid.gym_id],
                 !.team = IF raid.current_team_id = Unknown
                          THEN gym_team[raid.gym_id] ELSE raid.current_team_id]
    IN  IF notifications_disabled("raid")
        THEN Outcome(raid, expiration, gym_team, info2, cell_weather,
                     "disabled", e0, <<>>)
        ELSE IF raid_previously_processed(raid)
        THEN Outcome(raid, expiration, gym_team, info2, cell_weather,
                     "dedup", e0, <<>>)
        ELSE LET exp2 == cache_set_expiration(expiration, "raid", raid.gym_id,
                                              raid.raid_end)
             IN  IF raid_too_late(raid)
                 THEN Outcome(raid, exp2, gym_team, info2, cell_weather,
                              "time", e0, <<>>)
                 ELSE LET m == match_geofences(raid.pos,
                                               with_distance(e0, raid.pos))
                      IN  IF ~m.ok
                          THEN Outcome(raid, exp2, gym_team, info2,
                                       cell_weather, "geofence", m.e, <<>>)
                          ELSE Evaluated(raid, exp2, gym_team, info2,
                                   cell_weather,
                                   rule_loop(applicable_rules(table, "raid"),
                                             raid.attr, Start(m.e), 1))

\* process_weather without the early return of the repeated condition
weather_repeat_skipped(weather) == FALSE

\* the gate of process_weather
weather_previously_processed(weather) ==
    cell_weather[weather.weather_cell_id] = weather.condition

process_weather_result(table, weather) ==
    IF notifications_disabled("weather")
    THEN Outcome(weather, expiration, gym_team, gym_info, cell_weather,
                 "disabled", NewScratch, <<>>)
    ELSE IF weather_previously_processed(weather)
    THEN Outcome(weather, expiration, gym_team, gym_info, cell_weather,
                 "nochange", NewScratch, <<>>)
    ELSE LET weather2 == [cell_weather EXCEPT
                            ![weather.weather_cell_id] = weather.condition]
             m == match_weather_geofences(weather.weather_cell_id, NewScratch)
         IN  IF ~m.ok
             THEN Outcome(weather, expiration, gym_team, gym_info, weather2,
                          "geofence", m.e, <<>>)
             ELSE Evaluated(weather, expiration, gym_team, gym_info, weather2,
                      rule_loop(applicable_rules(table, "weather"), weather.attr,
                                Start(m.e), 1))

\* the processor of the event's kind, run on the rule tables given
process_result(table, ev) ==
    CASE ev.kind = "monster" -> process_monster_result(table, ev)
      [] ev.kind = "stop" -> process_stop_result(table, ev)
      [] ev.kind = "gym" -> process_gym_result(table, ev)
      [] ev.kind = "egg" -> process_egg_result(table, ev)
      [] ev.kind = "raid" -> process_raid_result(table, ev)
      [] ev.kind = "weather" -> process_weather_result(table, ev)

\* -------------------------------------------------------------- actions
NoCall ==
    [ ev |-> [kind |-> "none"], at |-> 0, seen |-> None, old_team |-> Unknown,
      gate |-> "none", e |-> NewScratch, out |-> <<>> ]

NoRuleCall ==
    [ kind |-> "none", name |-> <<>>, filters |-> <<>>, alarms |-> <<>>,
      before |-> <<>>, error |-> "none" ]

\* the rule tables with no rule
NoRuleTable == [k \in Kinds |-> <<>>]

\* the Manager after construction: an empty cache, nothing processed
CacheState ==
    /\ now = 0
    /\ expiration = [k \in ExpiringKinds |-> [i \in Ids |-> None]]
    /\ gym_team = [i \in Ids |-> Unknown]
    /\ gym_info = [i \in Ids |-> Unknown]
    /\ cell_weather = [i \in Ids |-> Unknown]
    /\ last = NoCall
    /\ gym_calls = [i \in Ids |-> <<>>]
    /\ rule_call = NoRuleCall
    /\ queue = <<>>
    /\ event_set = FALSE
    /\ pc = "top"
    /\ last_clean = 0
    /\ current = None
    /\ trace = <<>>
    /\ dispatches = <<>>

\* the Manager after construction: no rules either
InitState == rules = NoRuleTable /\ CacheState

Init ==
    /\ upstream \in Upstreams
    /\ cfg \in Configs
    /\ Kinds \ cfg.enabled \subseteq upstream.kinds
    /\ cfg.ignore_neutral => "gym" \in upstream.kinds
    /\ InitState


\* the run loop hands one dequeued event to its processor
Sent(ev) ==
    /\ ev.kind \in upstream.kinds
    /\ ev.kind \in {"gym", "egg", "raid"} => ev.gym_name \in upstream.gym_names
    /\ ev.kind \in {"egg", "raid"} => ev.current_team_id \in upstream.current_teams
    /\ ev.kind # "weather" => ev.pos \in upstream.points
    /\ (IF ev.kind = "monster" THEN ev.monster_id ELSE ev.attr) \in upstream.attrs

Process(ev) ==
    /\ Sent(ev)
    /\ \E r \in {process_result(rules, ev)} :
           /\ expiration' = r.exp
           /\ gym_team' = r.team
           /\ gym_info' = r.info
           /\ cell_weather' = r.weather
           /\ last' = r.call
    /\ UNCHANGED <<dispatches, cfg, upstream, rules, now, rule_call, loop>>

process_monster == \E ev \in MonEvents : Process(ev) /\ UNCHANGED gym_calls
process_stop == \E ev \in StopEvents : Process(ev) /\ UNCHANGED gym_calls
process_gym == \E ev \in GymEvents : Process(ev) /\ UNCHANGED gym_calls
process_egg == \E ev \in EggEvents : Process(ev) /\ UNCHANGED gym_calls
process_raid == \E ev \in RaidEvents : Process(ev) /\ UNCHANGED gym_calls
process_weather == \E ev \in WeatherEvents : Process(ev) /\ UNCHANGED gym_calls

\* process_gym, with the call kept in the gym's window of two calls
process_gym_observed ==
    \E ev \in GymEvents :
        /\ Process(ev)
        /\ gym_calls' = [gym_calls EXCEPT ![ev.gym_id] =
                            IF Len(@) = 2 THEN <<@[2], last'>>
                            ELSE Append(@, last')]

\* the rules a rules file may hold: (filter names, alarm names)
RuleChoices ==
    { <<<<Rare, Rare2>>, <<"a1", "a2">>>>,
      <<<<Rare, Rare2>>, <<"a2", "a1">>>>,
      <<<<Rare2, Rare>>, <<"a1", "a2">>>>,
      <<<<Rare2>>, <<"a1">>>>,
      <<<<Rare, Rare>>, <<"a1", "a1">>>>,
      <<<<Common>>, <<"a2">>>>,
      <<<<Rare, Nowhere>>, <<"a1">>>>,
      <<<<Rare>>, <<"a1", "a9">>>> }

RuleName(i) == <<"rule", i>>
RuleCount == Len(rules["monster"]) + Len(rules["stop"]) + Len(rules["gym"])
             + Len(rules["egg"]) + Len(rules["raid"]) + Len(rules["weather"])

\* the ValueError an add_*_rule call raises for its arguments, "none" when it
\* raises nothing
\* add_*_rule without the check of the name
add_rule_error_name_unchecked(kind, name, filters, alarms) ==
    IF \E i \in DOMAIN filters : filters[i] \notin Range(FilterNames)
    THEN "filter"
    ELSE IF \E i \in DOMAIN alarms : alarms[i] \notin Range(cfg.alarms)
    THEN "alarm"
    ELSE "none"

add_rule_error(kind, name, filters, alarms) ==
    IF \E i \in DOMAIN rules[kind] : rules[kind][i].name = name
    THEN "exists"
    ELSE IF \E i \in DOMAIN filters : filters[i] \notin Range(FilterNames)
    THEN "filter"
    ELSE IF \E i \in DOMAIN alarms : alarms[i] \notin Range(cfg.alarms)
    THEN "alarm"
    ELSE "none"

\* add_monster_rule, add_stop_rule, add_gym_rule, add_egg_rule, add_raid_rule,
\* add_weather_rule: called while the rules file is loaded, before any event
add_rule(kind, name, filters, alarms) ==
    /\ last = NoCall
    /\ kind \in upstream.kinds
    /\ IF add_rule_error(kind, name, filters, alarms) # "none"
       THEN UNCHANGED rules
       ELSE rules' = [rules EXCEPT ![kind] =
                        Append(@, [name |-> name, filter_names |-> filters,
                                   alarm_names |-> alarms])]
    /\ UNCHANGED <<dispatches, cfg, upstream, now, expiration, gym_team, gym_info,
                   cell_weather, last, gym_calls, loop>>

add_rules ==
    \E kind \in Kinds, i \in 1..MaxRules, c \in RuleChoices :
        /\ RuleCount < MaxRules
        /\ add_rule(kind, RuleName(i), c[1], c[2])
        /\ UNCHANGED rule_call

\* an add_*_rule call, observed: also a call whose name is taken
add_rules_observed ==
    \E kind \in Kinds, i \in 1..MaxRules, c \in RuleChoices :
        /\ RuleCount <= MaxRules
        /\ add_rule(kind, RuleName(i), c[1], c[2])
        /\ rule_call' =
              [ kind |-> kind, name |-> RuleName(i), filters |-> c[1],
                alarms |-> c[2], before |-> rules,
                error |-> add_rule_error(kind, RuleName(i), c[1], c[2]) ]

\* the cache sweep of the run loop
clean_and_save ==
    /\ expiration' = cache_clean(expiration)
    /\ UNCHANGED <<dispatches, cfg, upstream, rules, now, gym_team, gym_info,
                   cell_weather, last, gym_calls, rule_call, loop>>

\* time passes
Tick ==
    /\ now < MaxTime
    /\ now' = now + 1
    /\ UNCHANGED <<dispatches, cfg, upstream, rules, expiration, gym_team, gym_info,
                   cell_weather, last, gym_calls, rule_call, loop>>

Next ==
    \/ process_monster
    \/ process_stop
    \/ process_gym
    \/ process_egg
    \/ process_raid
    \/ process_weather
    \/ add_rules
    \/ clean_and_save
    \/ Tick

Spec == Init /\ [][Next]_vars

\* the Manager fed gym events only, every process_gym call observed
InitGym == Init /\ upstream.kinds = {"gym"}
NextGym == process_gym_observed \/ add_rules
SpecGym == InitGym /\ [][NextGym]_vars

\* the Manager fed the gym and raid events of one producer that names the
\* gyms, or leaves the name out, and leaves a raid's team out; every
\* process_gym call observed
FacilityUpstream ==
    [kinds |-> {"gym", "raid"}, gym_names |-> {Unknown, "Gym"},
     current_teams |-> {Unknown}, points |-> {2}, attrs |-> {150}]
FacilityConfigs ==
    { c \in Configs : \A f \in CfgFields \ {"enabled", "ignore_neutral", "time_limit"} :
                         c[f] = BaseCfg[f] }
InitFacility ==
    /\ upstream = FacilityUpstream
    /\ cfg \in FacilityConfigs
    /\ Kinds \ cfg.enabled \subseteq upstream.kinds
    /\ InitState
NextFacility == process_gym_observed \/ process_raid
SpecFacility == InitFacility /\ [][NextFacility]_vars

\* ------------------------------------------------------- the run loop
\* the objects a producer hands to update(): events, and an object of a kind
\* the Manager does not support
Unsupported == [kind |-> "other"]
Objects ==
    {ev \in MonEvents : Sent(ev) /\ ev.disappear_time = MaxTime + 1}
    \cup {ev \in WeatherEvents : Sent(ev)}
    \cup {Unsupported}

Happened(tag) == {i \in DOMAIN trace : trace[i][1] = tag}
PutCount == Cardinality(Happened("put"))

\* update(obj): put the object on the queue
update ==
    \E obj \in Objects :
        /\ PutCount < MaxPuts
        /\ queue' = Append(queue, <<PutCount + 1, obj>>)
        /\ trace' = Append(trace, <<"put", PutCount + 1>>)
        /\ UNCHANGED <<last_clean, dispatches, cfg, upstream, rules, now, expiration, gym_team,
                       gym_info, cell_weather, last, gym_calls, rule_call,
                       event_set, pc, current>>

\* stop(): set the event
stop ==
    /\ ~event_set
    /\ event_set' = TRUE
    /\ trace' = Append(trace, <<"stop", 0>>)
    /\ UNCHANGED <<last_clean, dispatches, cfg, upstream, rules, now, expiration, gym_team, gym_info,
                   cell_weather, last, gym_calls, rule_call, queue, pc,
                   current>>

\* a queue that hands out the newest object
queue_get_newest(q) == [obj |-> q[Len(q)], rest |-> SubSeq(q, 1, Len(q) - 1)]

\* Queue.get on a queue that holds something: the oldest object
queue_get(q) == [obj |-> Head(q), rest |-> Tail(q)]

\* run(): queue.get returns an object
run_get ==
    /\ pc = "get"
    /\ queue # <<>>
    /\ current' = Some(queue_get(queue).obj)
    /\ queue' = queue_get(queue).rest
    /\ pc' = "process"
    /\ trace' = Append(trace, <<"start", queue_get(queue).obj[1]>>)
    /\ UNCHANGED <<last_clean, dispatches, cfg, upstream, rules, now, expiration, gym_team, gym_info,
                   cell_weather, last, gym_calls, rule_call, event_set>>

\* a get that gives up although the queue holds an object
get_times_out_anyway == TRUE
\* a get that waits for ever
get_never_times_out == FALSE
\* an except clause that lets the exception end run()
after_exception_propagates == "crashed"

\* queue.get(block=True, timeout=5) raises Empty: only on a queue that stayed
\* empty
get_times_out == queue = <<>>

\* run(): queue.get times out on the empty queue; leave the loop when the
\* event is set, go round otherwise
run_empty ==
    /\ pc = "get"
    /\ get_times_out
    /\ pc' = IF event_set THEN "save" ELSE "top"
    /\ UNCHANGED <<last_clean, dispatches, cfg, upstream, rules, now, expiration, gym_team, gym_info,
                   cell_weather, last, gym_calls, rule_call, queue, event_set,
                   current, trace>>

\* the cache after the processor of the current object has run: as it was
\* for an unsupported object
Processed(obj) ==
    IF obj.kind \in Kinds THEN process_result(rules, obj)
    ELSE [exp |-> expiration, team |-> gym_team, info |-> gym_info,
          weather |-> cell_weather, call |-> last]

\* where run() is after an exception in the try block: the except clause
\* logs it and the loop goes round
after_exception == "top"

\* run(): the object is routed to its processor, which returns
run_process ==
    /\ pc = "process"
    /\ \E r \in {Processed(current[1][2])} :
          /\ expiration' = r.exp
          /\ gym_team' = r.team
          /\ gym_info' = r.info
          /\ cell_weather' = r.weather
          /\ last' = r.call
    /\ pc' = "top"
    /\ current' = None
    /\ trace' = Append(trace, <<"end", current[1][1]>>)
    /\ UNCHANGED <<last_clean, dispatches, cfg, upstream, rules, now, gym_calls, rule_call, queue,
                   event_set>>

\* what an interrupted processor call leaves in the cache: nothing when it
\* was interrupted before its cache writes, all of them when after
Interrupted(late) ==
    /\ \E r \in {Processed(current[1][2])} :
          /\ expiration' = IF late THEN r.exp ELSE expiration
          /\ gym_team' = IF late THEN r.team ELSE gym_team
          /\ gym_info' = IF late THEN r.info ELSE gym_info
          /\ cell_weather' = IF late THEN r.weather ELSE cell_weather
    /\ UNCHANGED last

\* run(): routing or the processor raises an Exception
run_process_raises ==
    /\ pc = "process"
    /\ \E late \in BOOLEAN : Interrupted(late)
    /\ pc' = after_exception
    /\ current' = None
    /\ trace' = Append(trace, <<"fail", current[1][1]>>)
    /\ UNCHANGED <<last_clean, dispatches, cfg, upstream, rules, now, gym_calls, rule_call, queue,
                   event_set>>

\* "Clean out visited every 5 minutes": the time between sweeps, in clock
\* units of five minutes
CleanEvery == 1
\* the clock of the run loop stops one unit after the first sweep is due
MaxClock == 3

\* a sweep that is due once five minutes have passed
clean_due_at_five == now - last_clean >= CleanEvery
\* a sweep that is never due
clean_never_due == FALSE

\* datetime.utcnow() - last_clean > timedelta(minutes=5)
clean_due == now - last_clean > CleanEvery

\* run(): the head of the loop; sweep the cache when a sweep is due, then
\* go on to queue.get
run_clean ==
    /\ pc = "top"
    /\ IF clean_due
       THEN /\ expiration' = cache_clean(expiration)
            /\ last_clean' = now
       ELSE UNCHANGED <<expiration, last_clean>>
    /\ pc' = "get"
    /\ UNCHANGED <<dispatches, cfg, upstream, rules, now, gym_team, gym_info,
                   cell_weather, last, gym_calls, rule_call, queue, event_set,
                   current, trace>>

\* time passes while run() is in its loop
run_tick ==
    /\ now < MaxClock
    /\ now' = now + 1
    /\ UNCHANGED <<last_clean, dispatches, cfg, upstream, rules, expiration,
                   gym_team, gym_info, cell_weather, last, gym_calls,
                   rule_call, queue, event_set, pc, current, trace>>

\* run(): "Save cache and exit"
run_save ==
    /\ pc = "save"
    /\ expiration' = cache_clean(expiration)
    /\ pc' = "done"
    /\ trace' = Append(trace, <<"save", 0>>)
    /\ UNCHANGED <<last_clean, dispatches, cfg, upstream, rules, now, gym_team, gym_info,
                   cell_weather, last, gym_calls, rule_call, queue, event_set,
                   current>>

\* join(), called after stop(): the wait times out with run() still in its
\* loop and the worker is killed where it waits (GreenletExit is no Exception:
\* no except clause of run() catches it); with run() finished, join() returns
join ==
    /\ event_set
    /\ IF pc = "process"
       THEN /\ \E late \in BOOLEAN : Interrupted(late)
            /\ pc' = "killed"
            /\ current' = None
            /\ trace' = Append(trace, <<"kill", current[1][1]>>)
       ELSE IF pc \in {"top", "get"}
       THEN /\ pc' = "killed"
            /\ trace' = Append(trace, <<"kill", 0>>)
            /\ UNCHANGED <<expiration, gym_team, gym_info, cell_weather,
                           last, current>>
       ELSE UNCHANGED <<expiration, gym_team, gym_info, cell_weather, last,
                        pc, current, trace>>
    /\ UNCHANGED <<last_clean, dispatches, cfg, upstream, rules, now, gym_calls, rule_call, queue,
                   event_set>>

RunUpstream ==
    [kinds |-> {"monster", "weather"}, gym_names |-> {Unknown},
     current_teams |-> {Unknown}, points |-> {2}, attrs |-> {150}]
InitRun ==
    /\ upstream = RunUpstream
    /\ cfg = BaseCfg
    /\ InitState
NextRun ==
    \/ update
    \/ stop
    \/ run_get
    \/ run_empty
    \/ run_process
    \/ run_process_raises
    \/ run_clean
    \/ run_save
    \/ join
SpecRun == InitRun /\ [][NextRun]_vars

\* the same Manager fed by a producer of monster events, where the worker
\* is scheduled whenever it can take a step and every processor call comes
\* to an end
\* the steps in which the processor call comes to its end, by returning or by
\* raising: the run_process and run_process_raises steps
run_returns == pc = "process" /\ pc' = "top"
InitRunFair ==
    /\ upstream = [RunUpstream EXCEPT !.kinds = {"monster"}]
    /\ cfg = BaseCfg
    /\ InitState
SpecRunFair ==
    /\ InitRunFair
    /\ [][NextRun]_vars
    /\ WF_vars(run_get)
    /\ WF_vars(run_empty)
    /\ WF_vars(run_clean)
    /\ WF_pc(run_returns)
    /\ WF_vars(run_save)

\* ------------------------------------------------------- the fan-out
\* The processor call of the run loop, step by step: the processor runs its
\* gates, its cache reads and writes and its loops (run_route), and for every
\* match calls _trigger_*, which spawns one delivery task per alarm
\* (trigger_spawn) and waits for them (trigger_returns); a delivery task runs
\* alarm.<kind>_alert(dts) while the worker is switched out.

\* the threads list of a _trigger_* call, after its spawn loop
Threads(alarms) ==
    [i \in DOMAIN alarms |->
        [alarm |-> alarms[i], state |-> "spawned", ended |-> 0]]

Ended(task) == task.state \in {"done", "failed"}
EndedCount(tasks) == Cardinality({i \in DOMAIN tasks : Ended(tasks[i])})
TasksOf(d) == dispatches[d].tasks
AlarmsOf(tasks) == [i \in DOMAIN tasks |-> tasks[i].alarm]

\* the matches of the processor call under way whose _trigger_* call is
\* still to come
Pending ==
    IF /\ pc \in {"dispatch", "join"}
       /\ current # None
       /\ current[1][2].kind \in Kinds
    THEN SubSeq(last.out, Len(dispatches) + 1, Len(last.out))
    ELSE <<>>

\* rule.alarm_names of the rule a match was found in
AskedOf(t) ==
    LET rs == applicable_rules(rules, last.ev.kind)
    IN  (CHOOSE r \in Range(rs) : r.name = t.rule).alarm_names

\* a processor that is spawned and left to itself: run() goes back to the
\* queue at once
run_route_spawned ==
    /\ pc = "process"
    /\ \E r \in {Processed(current[1][2])} :
          /\ expiration' = r.exp
          /\ gym_team' = r.team
          /\ gym_info' = r.info
          /\ cell_weather' = r.weather
          /\ last' = r.call
    /\ dispatches' = <<>>
    /\ pc' = "top"
    /\ UNCHANGED <<last_clean, cfg, upstream, rules, now, gym_calls, rule_call, queue,
                   event_set, current, trace>>

\* run(): the object is routed to its processor, which runs its gates and
\* its cache reads and writes, and finds its matches
run_route ==
    /\ pc = "process"
    /\ \E r \in {Processed(current[1][2])} :
          /\ expiration' = r.exp
          /\ gym_team' = r.team
          /\ gym_info' = r.info
          /\ cell_weather' = r.weather
          /\ last' = r.call
    /\ dispatches' = <<>>
    /\ pc' = "dispatch"
    /\ UNCHANGED <<last_clean, cfg, upstream, rules, now, gym_calls, rule_call, queue,
                   event_set, current, trace>>

\* _trigger_*: the spawn loop, up to the first thread.join()
trigger_spawn ==
    /\ pc = "dispatch"
    /\ Pending # <<>>
    /\ dispatches' = Append(dispatches,
                            [asked |-> AskedOf(Pending[1]),
                             tasks |-> Threads(Pending[1].alarms)])
    /\ pc' = "join"
    /\ UNCHANGED <<last_clean, cfg, upstream, rules, now, expiration, gym_team, gym_info,
                   cell_weather, last, gym_calls, rule_call, queue, event_set,
                   current, trace>>

\* the worker greenlet is switched out, or has ended: other greenlets run
Yielded == pc \in {"join", "top", "get", "save", "done"}

\* what a delivery task leaves alone: everything but its own state
TaskFrame ==
    UNCHANGED <<last_clean, cfg, upstream, rules, now, expiration, gym_team, gym_info,
                cell_weather, last, gym_calls, rule_call, loop>>

\* a delivery task is switched in for the first time
task_start ==
    \E d \in DOMAIN dispatches : \E i \in DOMAIN TasksOf(d) :
        /\ Yielded
        /\ TasksOf(d)[i].state = "spawned"
        /\ dispatches' = [dispatches EXCEPT ![d].tasks[i].state = "running"]
        /\ TaskFrame

\* alarm.<kind>_alert(dts) returns
task_finish ==
    \E d \in DOMAIN dispatches : \E i \in DOMAIN TasksOf(d) :
        /\ Yielded
        /\ TasksOf(d)[i].state = "running"
        /\ dispatches' = [dispatches EXCEPT
                            ![d].tasks[i].state = "done",
                            ![d].tasks[i].ended = EndedCount(TasksOf(d)) + 1]
        /\ TaskFrame

\* alarm.<kind>_alert(dts) raises
task_fail ==
    \E d \in DOMAIN dispatches : \E i \in DOMAIN TasksOf(d) :
        /\ Yielded
        /\ TasksOf(d)[i].state = "running"
        /\ dispatches' = [dispatches EXCEPT
                            ![d].tasks[i].state = "failed",
                            ![d].tasks[i].ended = EndedCount(TasksOf(d)) + 1]
        /\ TaskFrame

\* a wait for the first thread only
threads_joined_first(tasks) == DOMAIN tasks \cap {1}
\* a wait that hands on the exception of a task that raised, as
\* Greenlet.get() does
join_reraises(tasks) == \E i \in DOMAIN tasks : tasks[i].state = "failed"

\* "for thread in threads: thread.join()": the threads the call waits for
threads_joined(tasks) == DOMAIN tasks

\* Greenlet.join() returns None, whether the greenlet returned or raised
join_raises(tasks) == FALSE

\* _trigger_*: the last thread.join() returns, and the call with it
trigger_returns ==
    /\ pc = "join"
    /\ \E tasks \in {TasksOf(Len(dispatches))} :
          /\ \A i \in threads_joined(tasks) : Ended(tasks[i])
          /\ IF join_raises(tasks)
             THEN /\ pc' = after_exception
                  /\ current' = None
                  /\ trace' = Append(trace, <<"fail", current[1][1]>>)
             ELSE /\ pc' = "dispatch"
                  /\ UNCHANGED <<current, trace>>
    /\ UNCHANGED <<last_clean, dispatches, cfg, upstream, rules, now, expiration,
                   gym_team, gym_info, cell_weather, last, gym_calls,
                   rule_call, queue, event_set>>

\* the processor's loops raised after the matches they had found
LoopsRaised == current[1][2].kind \in Kinds /\ last.gate = "error"

\* run(): the processor call has made its last _trigger_* call and returns,
\* or raises out of its loops
run_finish ==
    /\ pc = "dispatch"
    /\ Pending = <<>>
    /\ pc' = IF LoopsRaised THEN after_exception ELSE "top"
    /\ trace' = Append(trace, <<IF LoopsRaised THEN "fail" ELSE "end",
                                current[1][1]>>)
    /\ current' = None
    /\ UNCHANGED <<last_clean, dispatches, cfg, upstream, rules, now, expiration,
                   gym_team, gym_info, cell_weather, last, gym_calls,
                   rule_call, queue, event_set>>

\* the Manager fed monster events, with channels for the filter base "rare"
\* in the geofences "North-Park" and "Lake", its rules file loaded before the
\* first event
FanoutCfg ==
    [BaseCfg EXCEPT !.channel_id =
        [g \in {NorthPark, Lake} |-> [b \in {"rare"} |-> <<"ch", g, b>>]]]
InitFanout ==
    /\ upstream = [RunUpstream EXCEPT !.kinds = {"monster"}]
    /\ cfg = FanoutCfg
    /\ InitState
NextFanout ==
    \/ add_rules
    \/ update
    \/ run_get
    \/ run_empty
    \/ run_clean
    \/ run_route
    \/ trigger_spawn
    \/ task_start
    \/ task_finish
    \/ task_fail
    \/ trigger_returns
    \/ run_finish
SpecFanout == InitFanout /\ [][NextFanout]_vars

\* _trigger_* called by itself, for one match, with a collection of alarm
\* names that no add_*_rule call has checked
AlarmNameLists ==
    { <<"a9">>, <<"a9", "a1">>, <<"a1", "a9", "a2">>, <<"a2", "a9", "a1">>,
      <<"a1", "a2">>, <<"a9", "a9", "a2">> }
trigger_direct ==
    \E names \in AlarmNameLists :
        /\ pc = "dispatch"
        /\ \E t \in {trigger(NewScratch, <<"direct", 0>>, Rare, Lake, names)} :
              dispatches' = <<[asked |-> names, tasks |-> Threads(t.alarms)]>>
        /\ pc' = "join"
        /\ UNCHANGED <<last_clean, cfg, upstream, rules, now, expiration, gym_team,
                       gym_info, cell_weather, last, gym_calls, rule_call,
                       queue, event_set, current, trace>>
InitTrigger ==
    /\ upstream = [RunUpstream EXCEPT !.kinds = {"monster"}]
    /\ cfg \in {[BaseCfg EXCEPT !.alarms = al] : al \in AlarmFiles}
    /\ rules = [k \in Kinds |-> <<>>]
    /\ now = 0
    /\ expiration = [k \in ExpiringKinds |-> [i \in Ids |-> None]]
    /\ gym_team = [i \in Ids |-> Unknown]
    /\ gym_info = [i \in Ids |-> Unknown]
    /\ cell_weather = [i \in Ids |-> Unknown]
    /\ last = NoCall
    /\ gym_calls = [i \in Ids |-> <<>>]
    /\ rule_call = NoRuleCall
    /\ queue = <<>>
    /\ event_set = FALSE
    /\ pc = "dispatch"
    /\ last_clean = 0
    /\ current = None
    /\ trace = <<>>
    /\ dispatches = <<>>
NextTrigger ==
    \/ trigger_direct
    \/ task_start
    \/ task_finish
    \/ task_fail
    \/ trigger_returns
SpecTrigger == InitTrigger /\ [][NextTrigger]_vars

\* the Manager fed by a producer of monster events while the clock runs
NextSweep == NextRun \/ run_tick
SpecSweep == InitRunFair /\ [][NextSweep]_vars

\* the Manager fed weather events, with geofence files whose names have up
\* to three segments
CityNorthPark == <<"City", "North", "Park">>
WeatherGeofenceFiles ==
    GeofenceFiles \cup
    { Some(<< [name |-> CityNorthPark, area |-> {1}, cells |-> {1}],
               [name |-> NorthPark, area |-> {1, 2}, cells |-> {1}] >>),
      Some(<< [name |-> NorthPark, area |-> {1, 2}, cells |-> {1}],
               [name |-> Park, area |-> {2}, cells |-> {1}] >>) }
InitWeather ==
    /\ upstream \in {u \in Upstreams : u.kinds = {"weather"}}
    /\ cfg \in {[BaseCfg EXCEPT !.geofences = g, !.channel_id = ch] :
                   g \in WeatherGeofenceFiles, ch \in ChannelFiles}
    /\ InitState
NextWeather == process_weather \/ add_rules
SpecWeather == InitWeather /\ [][NextWeather]_vars

\* the Manager fed the gym, egg and raid events of one producer that leaves
\* the team of an egg or raid out, or gives it
TeamUpstream ==
    [kinds |-> {"gym", "egg", "raid"}, gym_names |-> {Unknown},
     current_teams |-> {Unknown, "2"}, points |-> {2}, attrs |-> {150}]
InitTeams ==
    /\ upstream = TeamUpstream
    /\ cfg \in FacilityConfigs
    /\ InitState
NextTeams == process_gym \/ process_egg \/ process_raid
SpecTeams == InitTeams /\ [][NextTeams]_vars

\* a stop event in any state of its scratch fields, handed to _trigger_stop:
\* custom fields that share no key, one key or several keys with the
\* built-in fields
CustomFields ==
    { {}, {<<"note", "rare">>}, {<<"geofence", CityAll>>},
      {<<"note", "rare">>, <<"channel_id", <<"custom">>>>,
       <<"geofence_list", <<>>>>} }
StopScratches ==
    { [NewScratch EXCEPT !.custom_dts = c, !.geofence = g,
                         !.geofence_list = l, !.channel_id = ch] :
        c \in CustomFields, g \in {UnknownName, Lake, NorthPark},
        l \in {<<>>, <<Lake>>, <<NorthPark, Park, All>>},
        ch \in {<<Unknown>>, <<"custom">>, <<"ch">>} }

\* _trigger_stop(stop, alarms): the data bag is generated from the event
\* as it is, and the event is left as it is
trigger_stop ==
    /\ last.ev.kind = "stop"
    /\ last.gate = "none"
    /\ last' = [last EXCEPT
                  !.gate = "direct",
                  !.out = <<trigger(last.e, <<"direct", 0>>, Rare,
                                    last.e.geofence, cfg.alarms)>>]
    /\ UNCHANGED <<dispatches, cfg, upstream, rules, now, expiration, gym_team,
                   gym_info, cell_weather, gym_calls, rule_call, loop>>
InitDts ==
    /\ upstream \in {u \in Upstreams : u.kinds = {"stop"}}
    /\ cfg = BaseCfg
    /\ rules = NoRuleTable
    /\ now = 0
    /\ expiration = [k \in ExpiringKinds |-> [i \in Ids |-> None]]
    /\ gym_team = [i \in Ids |-> Unknown]
    /\ gym_info = [i \in Ids |-> Unknown]
    /\ cell_weather = [i \in Ids |-> Unknown]
    /\ last \in {[NoCall EXCEPT !.ev = ev, !.e = e] :
                    ev \in {s \in StopEvents : Sent(s)}, e \in StopScratches}
    /\ gym_calls = [i \in Ids |-> <<>>]
    /\ rule_call = NoRuleCall
    /\ queue = <<>>
    /\ event_set = FALSE
    /\ pc = "top"
    /\ last_clean = 0
    /\ current = None
    /\ trace = <<>>
    /\ dispatches = <<>>
NextDts == trigger_stop
SpecDts == InitDts /\ [][NextDts]_vars

\* the Manager with a rules file of two gym rules loaded, fed gym events
Accepted(c) ==
    /\ Range(c[1]) \subseteq Range(FilterNames)
    /\ Range(c[2]) \subseteq Range(cfg.alarms)
TwoGymRules ==
    { [NoRuleTable EXCEPT !["gym"] =
          << [name |-> RuleName(1), filter_names |-> c1[1],
              alarm_names |-> c1[2]],
             [name |-> RuleName(2), filter_names |-> c2[1],
              alarm_names |-> c2[2]] >>] :
        c1 \in {c \in RuleChoices : Accepted(c)},
        c2 \in {c \in RuleChoices : Accepted(c)} }
InitGymRules ==
    /\ upstream \in {u \in Upstreams : u.kinds = {"gym"}}
    /\ cfg \in {[BaseCfg EXCEPT !.geofences = g, !.filters = fs] :
                   g \in GeofenceFiles, fs \in FilterSections}
    /\ CacheState
    /\ rules \in TwoGymRules
NextGymRules == process_gym
SpecGymRules == InitGymRules /\ [][NextGymRules]_vars

\* the Manager while its rules file is loaded, every add_*_rule call observed
NextRules == add_rules_observed
SpecRules == Init /\ [][NextRules]_vars

\* the Manager of the creature scenario: one geofence "Lake", one filter
\* "rare" that passes species 150, a reference location, time_limit 1, any
\* of the channel files and alarm files; fed monster events only
ScenarioConfigs ==
    { [BaseCfg EXCEPT
         !.geofences = Some(<< [name |-> Lake, area |-> {1}, cells |-> {}] >>),
         !.filters = << [name |-> Rare, passes |-> {150}, geofences |-> None,
                         custom_dts |-> {<<"note", "rare">>}] >>,
         !.channel_id = ch, !.alarms = al] :
        ch \in ChannelFiles, al \in AlarmFiles }
InitCreature ==
    /\ upstream \in {u \in Upstreams : u.kinds = {"monster"}}
    /\ cfg \in ScenarioConfigs
    /\ InitState
NextCreature == process_monster \/ clean_and_save \/ Tick
SpecCreature == InitCreature /\ [][NextCreature]_vars

\* --------------------------------------------------------------- claims
\* what the claims read off a processor call
Dispatched(call) == call.out # <<>>
Expiry(ev) ==
    CASE ev.kind = "monster" -> ev.disappear_time
      [] ev.kind = "egg" -> ev.hatch_time
      [] ev.kind = "raid" -> ev.raid_end
      [] ev.kind = "stop" -> ev.expiration
Remaining(call) == Expiry(call.ev) - call.at
Attr(ev) == IF ev.kind = "monster" THEN ev.monster_id ELSE ev.attr
Containing(pos) ==
    IF HasGeofences THEN {g \in Range(Geofences) : pos \in g.area} ELSE {}
SomeFilterPasses(ev) == \E f \in Range(cfg.filters) : check_event(f, Attr(ev))
Suppressed(call) == call.seen # None /\ call.seen[1] >= call.at

\* C1: a monster, egg or raid event whose entity id has a stored expiration
\* that has not passed when the event is processed triggers no dispatch.
C1_SuppressedNeverDispatched ==
    (last.ev.kind \in ExpiringKinds /\ Suppressed(last)) => ~Dispatched(last)

\* a repeated event that every later gate would let through is dropped
C1_Witness ==
    /\ last.ev.kind \in ExpiringKinds
    /\ Suppressed(last)
    /\ last.gate = "dedup"
    /\ Remaining(last) >= cfg.time_limit
    /\ Containing(last.ev.pos) # {}
    /\ SomeFilterPasses(last.ev)

\* C2: a monster, egg, raid or stop event processed with less than time_limit
\* left triggers no dispatch; one with exactly time_limit left is not dropped
\* by the time gate.
C2_TooLateNeverDispatched ==
    last.ev.kind \in {"monster", "egg", "raid", "stop"} =>
        /\ Remaining(last) < cfg.time_limit => ~Dispatched(last)
        /\ Remaining(last) = cfg.time_limit => last.gate # "time"

\* an event dropped by the time gate alone
C2_Witness ==
    /\ last.ev.kind \in ExpiringKinds
    /\ last.gate = "time"
    /\ Remaining(last) = cfg.time_limit - 1
    /\ Containing(last.ev.pos) # {}
    /\ SomeFilterPasses(last.ev)

\* two consecutive process_gym calls for the same gym
TwoGymCalls(g) == Len(gym_calls[g]) = 2
FirstCall(g) == gym_calls[g][1]
SecondCall(g) == gym_calls[g][2]
ReachedRules(call) == call.gate \in {"rules", "error"}
IgnoredNeutral(call) == cfg.ignore_neutral /\ call.ev.new_team_id = Neutral

\* C3: of two consecutive gym events for the same gym with the same
\* new_team_id, at most one dispatches.
C3_SameTeamNotTwice ==
    \A g \in Ids :
        (TwoGymCalls(g)
         /\ FirstCall(g).ev.new_team_id = SecondCall(g).ev.new_team_id)
        => ~(Dispatched(FirstCall(g)) /\ Dispatched(SecondCall(g)))

\* the first dispatched, and the same event again is dropped as no change
C3_Witness ==
    \E g \in Ids :
        /\ TwoGymCalls(g)
        /\ FirstCall(g).ev = SecondCall(g).ev
        /\ Dispatched(FirstCall(g))
        /\ SecondCall(g).gate = "nochange"
        /\ SecondCall(g).old_team = SecondCall(g).ev.new_team_id

\* two consecutive gym events for the same gym, with gyms enabled, whose new
\* teams differ, the first differing from the team cached before it
TwoChanges(g) ==
    /\ TwoGymCalls(g)
    /\ "gym" \in cfg.enabled
    /\ FirstCall(g).ev.new_team_id # SecondCall(g).ev.new_team_id
    /\ FirstCall(g).ev.new_team_id # FirstCall(g).old_team

\* C4: of two consecutive gym events of one gym whose new teams differ, the
\* first differing from the cached team, each reaches rule evaluation unless
\* it is itself a change to neutral with ignore_neutral set.
C4_BothChangesEligible ==
    \A g \in Ids :
        TwoChanges(g) =>
            /\ IgnoredNeutral(FirstCall(g)) \/ ReachedRules(FirstCall(g))
            /\ IgnoredNeutral(SecondCall(g)) \/ ReachedRules(SecondCall(g))

\* the deliveries of a call: one per trigger and alarm, with the data bag
Deliveries(out) ==
    Flatten([i \in DOMAIN out |->
                [j \in DOMAIN out[i].alarms |->
                    [alarm |-> out[i].alarms[j], dts |-> out[i].dts]]])
Count(s, x) == Cardinality({i \in DOMAIN s : s[i] = x})
SameBag(a, b) ==
    /\ Len(a) = Len(b)
    /\ \A x \in Range(a) : Count(a, x) = Count(b, x)

NoRules == [k \in Kinds |-> <<>>]
BindsAll(rule) ==
    /\ Range(rule.filter_names) = Range(FilterNames)
    /\ Range(rule.alarm_names) = Range(cfg.alarms)
BindsAllOnce(rule) ==
    /\ BindsAll(rule)
    /\ Len(rule.filter_names) = Len(FilterNames)
    /\ Len(rule.alarm_names) = Len(cfg.alarms)

\* this step is the processor call that last' records, and it made the
\* deliveries and the cache changes that the same event makes from the same
\* state when no rule is configured
StepAsWithNoRules ==
    \E r \in {process_result(NoRules, last'.ev)} :
        /\ expiration' = r.exp
        /\ gym_team' = r.team
        /\ gym_info' = r.info
        /\ cell_weather' = r.weather
        /\ SameBag(Deliveries(last'.out), Deliveries(r.call.out))

OneRule(kind) == kind \in Kinds /\ Len(rules[kind]) = 1

\* C5 as claimed: an event processed under a single rule that binds every
\* filter of its kind to every alarm makes the deliveries and the cache
\* changes it makes when its kind has no rules.
C5_Claimed ==
    [][ (/\ OneRule(last'.ev.kind)
         /\ BindsAll(rules[last'.ev.kind][1])
         /\ Process(last'.ev))
        => StepAsWithNoRules ]_vars

\* C5, amended: the same, for a single rule that names every filter of the
\* kind once and every alarm once, and for gym events names the filters in
\* the order of the filter section.
C5_DefaultRuleEquivalent ==
    [][ (/\ OneRule(last'.ev.kind)
         /\ BindsAllOnce(rules[last'.ev.kind][1])
         /\ last'.ev.kind = "gym" =>
                rules["gym"][1].filter_names = FilterNames
         /\ Process(last'.ev))
        => StepAsWithNoRules ]_vars

\* an event dispatched under a rule that binds everything, in another order
C5_Witness ==
    /\ OneRule(last.ev.kind)
    /\ BindsAllOnce(rules[last.ev.kind][1])
    /\ rules[last.ev.kind][1].alarm_names # cfg.alarms
    /\ Len(Deliveries(last.out)) > 1

\* the (rule, filter, geofence name, alarm) of every delivery of a call
DeliveryKeys(out) ==
    Flatten([i \in DOMAIN out |->
                [j \in DOMAIN out[i].alarms |->
                    <<out[i].rule, out[i].filter, out[i].geofence_name,
                      out[i].alarms[j]>>]])

\* C6: in one processing pass of one event no (rule, filter, geofence name,
\* alarm name) combination is delivered more than once.
C6_OncePerMatch ==
    \A k \in Range(DeliveryKeys(last.out)) :
        Count(DeliveryKeys(last.out), k) = 1

\* the channel map has an entry for the geofence name and the filter's base
\* name
HasChannel(geofence_name, filter_name) ==
    /\ geofence_name \in DOMAIN cfg.channel_id
    /\ filter_name[1] \in DOMAIN cfg.channel_id[geofence_name]

TriggerKeys(out) ==
    { <<out[i].rule, out[i].filter, out[i].geofence_name>> : i \in DOMAIN out }

\* the filters of the configuration that the event passes
PassingFilters(ev) ==
    { cfg.filters[i].name : i \in { j \in DOMAIN cfg.filters :
                                      Attr(ev) \in cfg.filters[j].passes } }

\* every (rule, filter, geofence name) the call had to try
Tried(call) ==
    UNION { { <<r.name, f, g>> :
                f \in Range(r.filter_names) \cap PassingFilters(call.ev),
                g \in Range(call.e.geofence_list) } :
            r \in Range(applicable_rules(rules, call.ev.kind)) }

\* C7: for the kinds that dispatch per geofence name, a call that reaches
\* rule evaluation triggers for exactly the (rule, filter, geofence name)
\* combinations whose filter passes and whose (geofence name, filter base
\* name) pair has a channel: none for a pair without an entry, and every
\* other one whatever was skipped before it.
C7_MissingChannelSkipsOnlyThatPair ==
    (last.ev.kind \in Kinds \ {"gym"} /\ last.gate \in {"rules", "error"}) =>
        TriggerKeys(last.out) =
            { t \in Tried(last) : HasChannel(t[3], t[2]) }

\* a name without a channel is skipped and a later name of the same list is
\* dispatched
C7_Witness ==
    /\ last.ev.kind \in Kinds \ {"gym"}
    /\ \E i, j \in DOMAIN last.e.geofence_list, k \in DOMAIN last.out :
          /\ i < j
          /\ ~HasChannel(last.e.geofence_list[i], last.out[k].filter)
          /\ last.out[k].geofence_name = last.e.geofence_list[j]

\* the list match mode derives from a geofence name
DerivedList(name) ==
    <<name, <<"All">>>> \o (IF Len(name) > 1 THEN <<<<name[2]>>>> ELSE <<>>)

OnlyIn(pos) == CHOOSE g \in Containing(pos) : TRUE

\* C8: for a point inside exactly one configured geofence, match_geofences on
\* an event with an empty geofence list succeeds and leaves in the list that
\* geofence's name, "All", and the name's second segment when it is
\* hyphenated, and nothing else; a monster, egg or raid call that reaches the
\* lookup for such a point is not dropped by it and ends with that list.
C8_MatchListExact ==
    /\ \A pos \in Points : Cardinality(Containing(pos)) = 1 =>
          \E r \in {match_geofences(pos, NewScratch)} :
              /\ r.ok
              /\ r.e.geofence_list = DerivedList(OnlyIn(pos).name)
    /\ ( /\ last.ev.kind \in {"monster", "egg", "raid"}
         /\ last.gate \in {"geofence", "rules", "error"}
         /\ Cardinality(Containing(last.ev.pos)) = 1 )
       => /\ last.gate # "geofence"
          /\ last.e.geofence_list = DerivedList(OnlyIn(last.ev.pos).name)

\* a call matched a point that lies in one geofence only, of a hyphenated
\* name, while another geofence is configured
C8_Witness ==
    /\ last.ev.kind \in {"monster", "egg", "raid"}
    /\ last.gate = "rules"
    /\ Cardinality(Containing(last.ev.pos)) = 1
    /\ Len(Geofences) > 1
    /\ Len(last.e.geofence_list) = 3

GeofencedKinds == {"monster", "egg", "raid", "gym"}

\* C9: while no geofences are configured, no monster, egg, raid or gym event
\* is dispatched.
C9_NoGeofencesAlwaysDropped ==
    (last.ev.kind \in GeofencedKinds /\ ~HasGeofences) => ~Dispatched(last)

\* C10: with geofences configured, a monster, egg, raid or gym event whose
\* coordinates lie inside none of them is not dispatched.
C10_OutsideEveryGeofenceDropped ==
    ( /\ last.ev.kind \in GeofencedKinds
      /\ HasGeofences
      /\ Containing(last.ev.pos) = {} )
    => ~Dispatched(last)

\* the most recent process_gym call for a gym
LatestGym(g) == gym_calls[g][Len(gym_calls[g])]

\* C11: after a gym or raid event is processed, whatever gate dropped it, the
\* cache holds the gym name the event carried and, for a gym event, its new
\* team; a raid event that carries no team reads the new team of the most
\* recent gym event of its gym.
C11_FacilityValuesCached ==
    /\ last.ev.kind \in {"gym", "raid"} =>
          (last.ev.gym_name # Unknown =>
              gym_info[last.ev.gym_id] = last.ev.gym_name)
    /\ last.ev.kind = "gym" =>
          gym_team[last.ev.gym_id] = last.ev.new_team_id
    /\ ( /\ last.ev.kind = "raid"
         /\ last.ev.current_team_id = Unknown
         /\ gym_calls[last.ev.gym_id] # <<>> )
       => last.e.team = LatestGym(last.ev.gym_id).ev.new_team_id

\* the creature scenario: monsters enabled, no rules, no stored expiration
\* for the encounter, time_limit 1, a reference location, the event inside
\* "Lake", species 150 passing the one filter "rare", two time units left
CreatureScenario(call) ==
    /\ call.ev.kind = "monster"
    /\ "monster" \in cfg.enabled
    /\ rules["monster"] = <<>>
    /\ call.seen = None
    /\ cfg.time_limit = 1
    /\ cfg.location # None
    /\ {g.name : g \in Containing(call.ev.pos)} = {Lake}
    /\ call.ev.monster_id = 150
    /\ PassingFilters(call.ev) = {Rare}
    /\ call.ev.disappear_time - call.at = 2

ScenarioData(call, dts) ==
    /\ dts.geofence = Lake
    /\ dts.distance = <<IF call.ev.pos >= cfg.location[1]
                        THEN call.ev.pos - cfg.location[1]
                        ELSE cfg.location[1] - call.ev.pos>>

\* C12 as claimed: the scenario's event is delivered once to every configured
\* alarm, with geofence "Lake" and the distance from the reference location.
C12_Claimed ==
    CreatureScenario(last) =>
        \A a \in Range(cfg.alarms) :
            /\ Count([i \in DOMAIN Deliveries(last.out) |->
                        Deliveries(last.out)[i].alarm], a) = 1
            /\ \A d \in Range(Deliveries(last.out)) : ScenarioData(last, d.dts)

\* C12, amended: the scenario's event is delivered to every configured alarm
\* once for each of the names "Lake" and "All" that has a channel for "rare"
\* in the channel map, every time with geofence "Lake" and the distance from
\* the reference location.
C12_OncePerResolvedName ==
    CreatureScenario(last) =>
        /\ last.e.geofence_list = <<Lake, All>>
        /\ [i \in DOMAIN last.out |-> last.out[i].geofence_name] =
              SelectSeq(<<Lake, All>>, LAMBDA g : HasChannel(g, Rare))
        /\ \A i \in DOMAIN last.out :
              /\ last.out[i].alarms = cfg.alarms
              /\ last.out[i].filter = Rare
              /\ ScenarioData(last, last.out[i].dts)

\* the scenario with a channel for "All" as well as for "Lake": two
\* deliveries to every alarm
C12_Witness ==
    /\ CreatureScenario(last)
    /\ Len(last.out) = 2
    /\ Len(cfg.alarms) = 2

\* this step is process_weather of the event that last' records
WeatherStep == last'.ev.kind = "weather" /\ Process(last'.ev)

\* the configured geofences that the weather cell overlaps
Overlapping(cell) ==
    IF HasGeofences THEN {g \in Range(Geofences) : cell \in g.cells} ELSE {}

\* C13: a weather event whose condition is the one cached for its cell leaves
\* the cache as it was, accumulates no geofence name and triggers nothing.
C13_RepeatedWeatherDropped ==
    [][ (/\ WeatherStep
         /\ cell_weather[last'.ev.weather_cell_id] = last'.ev.condition)
        => /\ UNCHANGED <<cell_weather, expiration, gym_team, gym_info>>
           /\ last'.e.geofence_list = <<>>
           /\ last'.out = <<>> ]_vars

\* a repeated condition for a cell that overlaps a geofence, with a filter
\* that passes it
C13_Witness ==
    /\ last.ev.kind = "weather"
    /\ last.gate = "nochange"
    /\ Overlapping(last.ev.weather_cell_id) # {}
    /\ SomeFilterPasses(last.ev)
    /\ "weather" \in cfg.enabled

\* C14: with weather enabled, a weather event whose condition differs from
\* the one cached for its cell stores its condition for the cell and runs the
\* accumulation: when the cell overlaps a configured geofence the list holds
\* the first such geofence's name and ends with "All", and the event reaches
\* rule evaluation; otherwise the list stays empty and the event is dropped.
C14_ChangedWeatherProceeds ==
    [][ (/\ WeatherStep
         /\ "weather" \in cfg.enabled
         /\ cell_weather[last'.ev.weather_cell_id] # last'.ev.condition)
        => /\ cell_weather' =
                [cell_weather EXCEPT ![last'.ev.weather_cell_id] =
                                        last'.ev.condition]
           /\ IF Overlapping(last'.ev.weather_cell_id) # {}
              THEN /\ last'.gate = "rules"
                   /\ \E g \in Overlapping(last'.ev.weather_cell_id) :
                         last'.e.geofence_list[1] = g.name
                   /\ last'.e.geofence_list[Len(last'.e.geofence_list)] = All
              ELSE /\ last'.gate = "geofence"
                   /\ last'.e.geofence_list = <<>>
                   /\ last'.out = <<>> ]_vars

\* a changed condition for an overlapped cell was dispatched
C14_Witness ==
    /\ last.ev.kind = "weather"
    /\ last.gate = "rules"
    /\ cell_weather[last.ev.weather_cell_id] = last.ev.condition
    /\ Dispatched(last)

\* the add_*_rule call that rule_call records had to fail
MustFail(c) ==
    \/ c.name \in {c.before[c.kind][i].name : i \in DOMAIN c.before[c.kind]}
    \/ Range(c.filters) \ Range(FilterNames) # {}
    \/ Range(c.alarms) \ Range(cfg.alarms) # {}

\* C15: an add_*_rule call raises an error exactly when the name is taken in
\* the kind's table, a filter name is not in the kind's filter set or an
\* alarm name is not in the alarm set, and then leaves every rule table as it
\* was; otherwise it stores the rule under its name, with the given filters
\* and alarms, in the kind's table, and leaves the other tables as they were.
C15_RuleCreationChecked ==
    rule_call.kind \in Kinds =>
        /\ (rule_call.error # "none") <=> MustFail(rule_call)
        /\ \A k \in Kinds \ {rule_call.kind} : rules[k] = rule_call.before[k]
        /\ IF MustFail(rule_call)
           THEN rules[rule_call.kind] = rule_call.before[rule_call.kind]
           ELSE rules[rule_call.kind] =
                  Append(rule_call.before[rule_call.kind],
                         [name |-> rule_call.name,
                          filter_names |-> rule_call.filters,
                          alarm_names |-> rule_call.alarms])

\* a valid rule refused because its name is taken
C15_Witness ==
    /\ rule_call.kind \in Kinds
    /\ rule_call.error = "exists"
    /\ Range(rule_call.filters) \subseteq Range(FilterNames)
    /\ Range(rule_call.alarms) \subseteq Range(cfg.alarms)
    /\ Len(rules[rule_call.kind]) = 1

\* what the trace holds
Entry(i) == trace[i]
Finished(n) == {i \in DOMAIN trace : trace[i] \in {<<"end", n>>, <<"fail", n>>}}
Started(n) == {i \in DOMAIN trace : trace[i] = <<"start", n>>}

\* C16: an exception raised while an object is routed or processed leaves
\* run() in its loop, at the head of the next iteration, with the queue as
\* it was; the
\* object is not started again and is not on the queue again.
C16_ExceptionKeepsLoop ==
    /\ [][ (/\ pc = "process"
            /\ Len(trace') > Len(trace)
            /\ trace'[Len(trace')] = <<"fail", current[1][1]>>)
           => (pc' = "top" /\ queue' = queue /\ current' = None) ]_vars
    /\ [](\A i \in Happened("fail") :
             /\ \A j \in Started(trace[i][2]) : j < i
             /\ Cardinality(Started(trace[i][2])) = 1
             /\ \A k \in DOMAIN queue : queue[k][1] # trace[i][2]
             /\ current = None \/ current[1][1] # trace[i][2])

\* an object raised, and the object put after it was processed to the end
C16_Witness ==
    \E i \in Happened("fail"), j \in Happened("end") :
        /\ i < j
        /\ trace[j][2] = trace[i][2] + 1

\* C17: run() leaves its loop only from a queue.get that found the queue
\* empty while the event was set; when it has left the loop, every object
\* put before stop() was called has been processed to its end.
C17_DrainsBeforeExit ==
    /\ [][ (pc = "get" /\ pc' = "save") => (queue = <<>> /\ event_set) ]_vars
    /\ [](pc \in {"save", "done"} =>
            \A p \in Happened("put"), st \in Happened("stop") :
                p < st => Finished(trace[p][2]) # {})

\* run() has ended in order after a stop() that found two objects waiting
C17_Witness ==
    /\ pc = "done"
    /\ \E st \in Happened("stop") :
          Cardinality({p \in Happened("put") :
                         /\ p < st
                         /\ \A i \in Started(trace[p][2]) : i > st}) >= 2

\* C18 as claimed: once stop() has been called, run() sooner or later ends
\* with the final clean_and_save.
C18_Claimed == event_set ~> (pc = "done")

RunEnded ==
    /\ pc = "done"
    /\ Cardinality(Happened("save")) = 1
    /\ \A i \in DOMAIN trace :
          trace[i][1] \in {"start", "end", "fail"} =>
              \A j \in Happened("save") : i < j

\* C18, amended: once stop() has been called, and unless join() kills the
\* worker, run() sooner or later finds the queue empty and ends, having
\* called the final clean_and_save once, after everything else it did.
C18_StopLeadsToExit ==
    /\ <>(pc = "killed") \/ (event_set ~> RunEnded)
    /\ [](pc = "done" => RunEnded)

\* run() has ended after processing an object that it started after stop()
C18_Witness ==
    /\ RunEnded
    /\ \E st \in Happened("stop"), i \in Happened("start") : st < i

\* C19: whichever way the worker has ended after stop(), the final
\* clean_and_save has been called.
C19_SavedOnEveryExit ==
    (event_set /\ pc \in {"done", "killed", "crashed"}) =>
        Happened("save") # {}

\* C20: objects are started in the order of their puts, and one is started
\* only when every object started before it has come to its end.
C20_ProcessedInArrivalOrder ==
    /\ \A i, j \in Happened("start") :
          i < j => /\ trace[i][2] < trace[j][2]
                   /\ \E k \in Finished(trace[i][2]) : k < j
    /\ \A i, j \in DOMAIN queue : i < j => queue[i][1] < queue[j][1]
    /\ current # None => /\ Finished(current[1][1]) = {}
                         /\ pc = "process"

\* two objects waited on the queue together and both were processed
C20_Witness ==
    \E p1, p2 \in Happened("put"), s1 \in Happened("start"),
       e2 \in Happened("end") :
        /\ p1 < p2 /\ p2 < s1
        /\ trace[s1][2] = trace[p1][2]
        /\ trace[e2][2] = trace[p2][2]

\* the cache, and the delivery tasks that have not come to their end
Cache == <<expiration, gym_team, gym_info, cell_weather>>
NoTaskLeft ==
    \A d \in DOMAIN dispatches :
        \A i \in DOMAIN TasksOf(d) : Ended(TasksOf(d)[i])
InProcess == {n \in 1..MaxPuts : Started(n) # {} /\ Finished(n) = {}}

\* C21: at most one object is in processing; run() can take the next object
\* from the queue, or sweep the cache, only when no object is in processing
\* and no delivery task is left; and the cache changes only in the processor
\* call of the object in processing or in a sweep, never in a step of a
\* delivery task.
C21_OneEventAtATime ==
    /\ [](Cardinality(InProcess) <= 1)
    /\ []((ENABLED run_get \/ ENABLED run_clean \/ ENABLED run_save) =>
             (current = None /\ InProcess = {} /\ NoTaskLeft))
    /\ [][ Cache' # Cache =>
              /\ dispatches # dispatches' => dispatches' = <<>>
              /\ \/ pc = "process" /\ current # None
                 \/ /\ pc \in {"top", "save"}
                    /\ current = None
                    /\ expiration' = cache_clean(expiration) ]_vars
    /\ [][ (dispatches' # dispatches /\ dispatches' # <<>>) =>
              Cache' = Cache ]_vars

\* a delivery task is running while the next object waits on the queue
C21_Witness ==
    /\ pc = "join"
    /\ queue # <<>>
    /\ Cardinality(InProcess) = 1
    /\ \E i \in DOMAIN TasksOf(Len(dispatches)) :
          TasksOf(Len(dispatches))[i].state = "running"

\* C22: a _trigger_* call returns only when every delivery task it spawned
\* has come to its end, in whatever order the tasks ran; while the worker is
\* anywhere but inside the wait of a _trigger_* call no delivery task is
\* left, and inside it none of an earlier call.
C22_DispatchWaitsForTasks ==
    /\ [][ (pc = "join" /\ pc' # "join") =>
              \A i \in DOMAIN TasksOf(Len(dispatches)) :
                  Ended(TasksOf(Len(dispatches))[i]) ]_vars
    /\ [](pc # "join" => NoTaskLeft)
    /\ [](pc = "join" =>
            \A d \in 1..(Len(dispatches) - 1) :
                \A i \in DOMAIN TasksOf(d) : Ended(TasksOf(d)[i]))

\* a call has returned whose second task ended before its first, and the
\* next call has been made
C22_Witness ==
    /\ Len(dispatches) >= 2
    /\ Len(TasksOf(1)) >= 2
    /\ TasksOf(1)[2].ended = 1
    /\ TasksOf(1)[1].ended = 2

Returned(d) == d < Len(dispatches) \/ pc # "join"
SomeFailed(tasks) == \E i \in DOMAIN tasks : tasks[i].state = "failed"

\* C23: a _trigger_* call in which a delivery task raised has returned only
\* after every task it spawned was run to its end, one task for each alarm of
\* the match; it returns to the processor's loops, which make the
\* _trigger_* call of every match they find and end the processor call
\* without an exception.
C23_FailureIsolated ==
    /\ [](\A d \in DOMAIN dispatches :
            (Returned(d) /\ SomeFailed(TasksOf(d))) =>
                /\ \A i \in DOMAIN TasksOf(d) : Ended(TasksOf(d)[i])
                /\ current # None => AlarmsOf(TasksOf(d)) = last.out[d].alarms)
    /\ [][ (pc = "join" /\ pc' # "join") =>
              (pc' = "dispatch" /\ current' = current /\ trace' = trace) ]_vars
    /\ [][ (pc = "dispatch" /\ pc' # "dispatch" /\ pc' # "join") =>
              /\ Len(dispatches) = Len(last.out) \/ current[1][2].kind \notin Kinds
              /\ ~LoopsRaised => trace' = Append(trace, <<"end", current[1][1]>>)
           ]_vars

\* the first task of a match raised, its sibling was run to the end after
\* that, and the tasks of the next match were run to the end
C23_Witness ==
    /\ pc = "top"
    /\ Len(dispatches) >= 2
    /\ Len(TasksOf(1)) >= 2
    /\ TasksOf(1)[1].state = "failed"
    /\ TasksOf(1)[2].state = "done"
    /\ TasksOf(1)[1].ended < TasksOf(1)[2].ended
    /\ \A i \in DOMAIN TasksOf(2) : TasksOf(2)[i].state = "done"
    /\ Happened("end") # {}
    /\ Happened("fail") = {}

\* C25: no _trigger_* call has two delivery tasks for the same alarm, so
\* that no two deliveries to one alarm run at the same time for one match.
C25_OneTaskPerAlarm ==
    \A d \in DOMAIN dispatches :
        \A i, j \in DOMAIN TasksOf(d) :
            (i # j) => TasksOf(d)[i].alarm # TasksOf(d)[j].alarm

\* two deliveries to the same alarm are running at once for one match
C25_Witness ==
    \E d \in DOMAIN dispatches :
        \E i, j \in DOMAIN TasksOf(d) :
            /\ i # j
            /\ TasksOf(d)[i].alarm = TasksOf(d)[j].alarm
            /\ TasksOf(d)[i].state = "running"
            /\ TasksOf(d)[j].state = "running"

Resolves(name) == name \in Range(cfg.alarms)

\* C24: a _trigger_* call given a collection of alarm names of which some
\* resolve to no alarm spawns one delivery task for every occurrence of a name
\* that resolves and none for the others, and returns without an exception
\* once every one of these tasks was run to its end.
C24_UnknownAlarmSkipped ==
    /\ [](\A d \in DOMAIN dispatches :
            /\ \A n \in Range(dispatches[d].asked) :
                  Count(AlarmsOf(TasksOf(d)), n) =
                      IF Resolves(n) THEN Count(dispatches[d].asked, n) ELSE 0
            /\ \A i \in DOMAIN TasksOf(d) : Resolves(TasksOf(d)[i].alarm))
    /\ [](pc \in {"dispatch", "join"})
    /\ [](pc = "dispatch" => NoTaskLeft)
    /\ [][ (pc = "join" /\ pc' = "dispatch") => trace' = trace ]_vars

\* the first name of the collection has no alarm, a later one has, and its
\* delivery was run to the end before the call returned
C24_Witness ==
    /\ pc = "dispatch"
    /\ Len(dispatches) = 1
    /\ ~Resolves(dispatches[1].asked[1])
    /\ \E k \in DOMAIN dispatches[1].asked :
          /\ k > 1
          /\ Resolves(dispatches[1].asked[k])
          /\ \E i \in DOMAIN TasksOf(1) :
                /\ TasksOf(1)[i].alarm = dispatches[1].asked[k]
                /\ TasksOf(1)[i].state = "done"

RuleNames(out) == [i \in DOMAIN out |-> out[i].rule]

\* a gym event passes a filter: its predicate, and its geofence check
GymPasses(f_name, gym) ==
    \E f \in Range(cfg.filters) :
        /\ f.name = f_name
        /\ check_event(f, gym.attr)
        /\ check_geofences(f, gym.pos, NewScratch).ok

\* C26: a process_gym call triggers at most once in each applicable rule,
\* and so at most as often as there are applicable rules; the trigger of a
\* rule is for the first of the rule's filters that the event passes.
C26_GymOncePerRule ==
    last.ev.kind = "gym" =>
        /\ Len(last.out) <= Len(applicable_rules(rules, "gym"))
        /\ \A k \in DOMAIN last.out :
              /\ Count(RuleNames(last.out), last.out[k].rule) = 1
              /\ \E r \in Range(applicable_rules(rules, "gym")) :
                    /\ r.name = last.out[k].rule
                    /\ \E i \in DOMAIN r.filter_names :
                          /\ r.filter_names[i] = last.out[k].filter
                          /\ GymPasses(r.filter_names[i], last.ev)
                          /\ \A j \in 1..(i - 1) :
                                ~GymPasses(r.filter_names[j], last.ev)

\* the event passes two filters of one rule and is triggered once, for the
\* first of them
C26_Witness ==
    /\ last.ev.kind = "gym"
    /\ Len(last.out) = 1
    /\ \E r \in Range(applicable_rules(rules, "gym")) :
          \E i, j \in DOMAIN r.filter_names :
              /\ i < j
              /\ r.filter_names[i] # r.filter_names[j]
              /\ GymPasses(r.filter_names[i], last.ev)
              /\ GymPasses(r.filter_names[j], last.ev)
              /\ last.out[1].filter = r.filter_names[i]

\* C27: an event of a kind whose notifications are disabled triggers
\* nothing, whatever the cache, the filters, the rules, the geofences and
\* the channel map are: the processor returns at its switch, or before it.
C27_DisabledKindNeverDispatched ==
    (last.ev.kind \in Kinds /\ last.ev.kind \notin cfg.enabled) =>
        /\ last.out = <<>>
        /\ last.gate \in {"disabled", "neutral"}

\* an event of a disabled kind that no other gate would drop: a fresh entity
\* with time left, inside a geofence, passing a filter
C27_Witness ==
    /\ last.ev.kind \in ExpiringKinds
    /\ last.ev.kind \notin cfg.enabled
    /\ last.gate = "disabled"
    /\ last.seen = None
    /\ Remaining(last) >= cfg.time_limit
    /\ Containing(last.ev.pos) # {}
    /\ SomeFilterPasses(last.ev)

PerGeofenceKinds == {"monster", "egg", "raid", "weather"}

TriggerKeySeq(out) ==
    [i \in DOMAIN out |-> <<out[i].rule, out[i].filter, out[i].geofence_name>>]

\* the (rule, filter, geofence name) combinations of a call, in the order of
\* the rules, of each rule's filters and of the event's geofence list, for
\* the filters the event passes and the names that have a channel
CombinationsOf(r, f_name, call) ==
    IF f_name \notin PassingFilters(call.ev) THEN <<>>
    ELSE [k \in DOMAIN SelectSeq(call.e.geofence_list,
                                 LAMBDA g : HasChannel(g, f_name)) |->
             <<r.name, f_name,
               SelectSeq(call.e.geofence_list,
                         LAMBDA g : HasChannel(g, f_name))[k]>>]
Combinations(call) ==
    LET rs == applicable_rules(rules, call.ev.kind)
    IN  Flatten([ri \in DOMAIN rs |->
            Flatten([fi \in DOMAIN rs[ri].filter_names |->
                CombinationsOf(rs[ri], rs[ri].filter_names[fi], call)])])

EntityId(ev) == IF ev.kind = "monster" THEN ev.enc_id ELSE ev.gym_id
Expired(call) == call.seen # None /\ call.seen[1] < call.at

Allowed(f) ==
    IF f.geofences[1] = <<AllowAll>>
    THEN [i \in DOMAIN Geofences |-> Geofences[i].name]
    ELSE f.geofences[1]
Hits(f, pos) ==
    {i \in DOMAIN Allowed(f) :
        \E g \in Range(Geofences) : g.name = Allowed(f)[i] /\ pos \in g.area}
FirstHit(f, pos) == CHOOSE i \in Hits(f, pos) : \A j \in Hits(f, pos) : i <= j
Constrained(f) == HasGeofences /\ f.geofences # None

\* C30: check_geofences passes, and leaves the event alone, when the Manager
\* has no geofences or the filter no allowlist; otherwise it passes exactly
\* when a geofence named by the allowlist ("all" alone standing for every
\* configured geofence, names of no geofence skipped) contains the event,
\* and sets the event's geofence to the first such name of the list; when
\* none contains it, it fails, leaves the event alone and has the filter
\* record the rejection.  A gym call triggered by a filter with an allowlist
\* carries the name found for that filter.
C30_CheckGeofences ==
    /\ \A f \in Range(cfg.filters), pos \in Points :
          \E r \in {check_geofences(f, pos, NewScratch)} :
              IF ~Constrained(f)
              THEN r.ok /\ r.e = NewScratch /\ r.reject = None
              ELSE IF Hits(f, pos) = {}
              THEN ~r.ok /\ r.e = NewScratch /\ r.reject = NotInGeofences
              ELSE /\ r.ok
                   /\ r.e = [NewScratch EXCEPT
                                !.geofence = Allowed(f)[FirstHit(f, pos)]]
                   /\ r.reject = None
    /\ last.ev.kind = "gym" =>
          \A k \in DOMAIN last.out :
              \A f \in Range(cfg.filters) :
                  (f.name = last.out[k].filter /\ Constrained(f)) =>
                      /\ Hits(f, last.ev.pos) # {}
                      /\ last.out[k].dts.geofence =
                             Allowed(f)[FirstHit(f, last.ev.pos)]

\* a gym event was triggered by a filter whose allowlist names no geofence
\* first and then the geofence that contains the event
C30_Witness ==
    /\ last.ev.kind = "gym"
    /\ Len(last.out) = 1
    /\ \E f \in Range(cfg.filters) :
          /\ f.name = last.out[1].filter
          /\ Constrained(f)
          /\ FirstHit(f, last.ev.pos) > 1
          /\ Allowed(f)[1] \notin GeofenceNames
          /\ last.out[1].dts.geofence = Allowed(f)[FirstHit(f, last.ev.pos)]

\* the accumulation with one parent-family token per geofence, the last
\* segment of its name, both tested for the skip and appended on a match
RECURSIVE Accumulated(_, _, _)
Accumulated(i, cell, list) ==
    IF i > Len(Geofences) THEN list
    ELSE LET name == Geofences[i].name
             token == <<name[Len(name)]>>
         IN  IF token \in Range(list) \/ cell \notin Geofences[i].cells
             THEN Accumulated(i + 1, cell, list)
             ELSE Accumulated(i + 1, cell,
                      list \o <<name>>
                           \o (IF Len(name) > 1 THEN <<token>> ELSE <<>>))

\* C31: a weather call that reaches the accumulation visits the configured
\* geofences in order, skips one exactly when its parent-family token is in
\* the list, appends the name of every other one that overlaps the cell and
\* the same token when the name is hyphenated, appends "All" at the end when
\* something matched, and is dropped exactly when nothing matched.
C31_WeatherAccumulation ==
    ( /\ last.ev.kind = "weather"
      /\ last.gate \in {"geofence", "rules", "error"}
      /\ HasGeofences )
    => \E acc \in {Accumulated(1, last.ev.weather_cell_id, <<>>)} :
          /\ last.gate = "geofence" <=> acc = <<>>
          /\ last.e.geofence_list =
                 IF acc = <<>> THEN <<>> ELSE acc \o <<All>>

\* a geofence of a three-segment name matched, and a later geofence whose
\* name ends in the same segment was not skipped
C31_Witness ==
    /\ last.ev.kind = "weather"
    /\ last.gate = "rules"
    /\ \E i, j \in DOMAIN last.e.geofence_list :
          /\ i < j
          /\ Len(last.e.geofence_list[i]) = 3
          /\ Len(last.e.geofence_list[j]) = 2
          /\ last.e.geofence_list[i][3] = last.e.geofence_list[j][2]

\* the worker takes a step of run() that leaves the position it is at
Leaves(at) == pc = at /\ pc' \notin {at, "killed"}

\* C32: run() goes from the head of its loop to queue.get only, sweeping the
\* cache and setting last_clean to the clock on the way exactly when more
\* than five minutes have passed since last_clean; it is at queue.get only
\* after passing the head; a queue.get that times out without the stop event
\* and a processor call that ends both lead back to the head; and last_clean
\* changes only at the head, with no object in processing.
C32_SweepAtLoopHead ==
    /\ [][ Leaves("top") =>
              /\ pc' = "get"
              /\ IF now - last_clean > CleanEvery
                 THEN /\ expiration' = cache_clean(expiration)
                      /\ last_clean' = now
                 ELSE /\ expiration' = expiration
                      /\ last_clean' = last_clean ]_vars
    /\ [][ (pc' = "get" /\ pc # "get") => pc = "top" ]_vars
    /\ [][ (Leaves("get") /\ queue = <<>> /\ ~event_set) => pc' = "top" ]_vars
    /\ [][ Leaves("process") => pc' = "top" ]_vars
    /\ [][ last_clean' # last_clean => (pc = "top" /\ current = None) ]_vars

\* a creature was processed and its cache entry stored; more than five
\* minutes after run() began the cache was swept at the head of the loop and
\* the entry, by then in the past, is gone
C32_Witness ==
    /\ last_clean > CleanEvery
    /\ last.ev.kind = "monster"
    /\ last.at < last_clean
    /\ last.gate \notin {"enabled", "dedup"}
    /\ expiration["monster"][last.ev.enc_id] = None

\* the processor call that last records passed the dedup check
PassedDedup(call) ==
    call.ev.kind \in ExpiringKinds /\ call.gate \notin {"none", "disabled", "dedup"}
StoredFor(exp, ev) == exp[ev.kind][EntityId(ev)]

\* C33: a monster, egg or raid call that passes the dedup check leaves the
\* event's expiration stored for its id, also when the time gate or the
\* geofence gate drops the event with nothing dispatched; and the next call
\* for the same kind and id, made while that expiration has not passed, is
\* dropped by the dedup check.
C33_RecordedBeforeGates ==
    /\ [][ (last' # last /\ PassedDedup(last')) =>
              /\ StoredFor(expiration', last'.ev) = Some(Expiry(last'.ev))
              /\ last'.gate \in {"time", "geofence"} => ~Dispatched(last') ]_vars
    /\ [][ (/\ last' # last
            /\ PassedDedup(last)
            /\ last'.ev.kind = last.ev.kind
            /\ EntityId(last'.ev) = EntityId(last.ev)
            /\ cfg.enabled = Kinds
            /\ Expiry(last.ev) >= now)
           => (last'.gate = "dedup" /\ ~Dispatched(last')) ]_vars

\* an event that every gate after the dedup check would let through is
\* dropped for the entry of an event that the time gate dropped: the entry
\* was stored at time 0 with no time left, so nothing was dispatched for it
C33_Witness ==
    /\ now = 0
    /\ cfg.time_limit = 1
    /\ last.ev.kind \in ExpiringKinds
    /\ last.gate = "dedup"
    /\ last.seen = Some(0)
    /\ Remaining(last) >= cfg.time_limit
    /\ Containing(last.ev.pos) # {}
    /\ SomeFilterPasses(last.ev)

\* C34: with ignore_neutral set, process_gym never stores the neutral team
\* as a gym's team; and of two consecutive gym events for a gym whose stored
\* team T is not neutral, the first a change to neutral and the second a
\* change to T, neither dispatches and T stays stored.
C34_NeutralNeverCached ==
    /\ [][ cfg.ignore_neutral =>
              \A g \in Ids : gym_team'[g] = Neutral => gym_team[g] = Neutral ]_vars
    /\ [](cfg.ignore_neutral =>
            \A g \in Ids :
              (/\ TwoGymCalls(g)
               /\ FirstCall(g).old_team \notin {Neutral, Unknown}
               /\ FirstCall(g).ev.new_team_id = Neutral
               /\ SecondCall(g).ev.new_team_id = FirstCall(g).old_team)
              => /\ ~Dispatched(FirstCall(g))
                 /\ ~Dispatched(SecondCall(g))
                 /\ SecondCall(g).old_team = FirstCall(g).old_team
                 /\ gym_team[g] = FirstCall(g).old_team)

\* a gym held by team T goes neutral and is taken back by T: the first event
\* is ignored as a change to neutral, the second is dropped as no change
C34_Witness ==
    /\ cfg.ignore_neutral
    /\ "gym" \in cfg.enabled
    /\ \E g \in Ids :
          /\ TwoGymCalls(g)
          /\ FirstCall(g).old_team \in Teams \ {Neutral}
          /\ FirstCall(g).gate = "neutral"
          /\ SecondCall(g).ev.new_team_id = FirstCall(g).old_team
          /\ SecondCall(g).gate = "nochange"
          /\ Containing(SecondCall(g).ev.pos) # {}
          /\ SomeFilterPasses(SecondCall(g).ev)

\* C35: no stop event triggers a dispatch: process_stop takes the event's
\* geofence list as the constructor left it, empty, and goes through it for
\* every filter that passes.
C35_StopNeverDispatches ==
    last.ev.kind = "stop" =>
        /\ ~Dispatched(last)
        /\ last.e.geofence_list = <<>>

\* a stop inside a configured geofence, with stops enabled, a filter that
\* passes it and a channel id for every pair, went through the rules and
\* nothing was dispatched
C35_Witness ==
    /\ last.ev.kind = "stop"
    /\ last.gate = "rules"
    /\ Containing(last.ev.pos) # {}
    /\ SomeFilterPasses(last.ev)
    /\ cfg.channel_id = BaseCfg.channel_id
    /\ cfg.alarms # <<>>
    /\ ~Dispatched(last)

\* the filter of a name, among the configured filters
FilterNamed(name) == CHOOSE f \in Range(cfg.filters) : f.name = name
HasEntry(geofence_name, f_name) ==
    /\ geofence_name \in DOMAIN cfg.channel_id
    /\ f_name[1] \in DOMAIN cfg.channel_id[geofence_name]

\* C36: every dispatch of a monster, stop, egg, raid or weather call is for
\* a (geofence name, filter) pair that the channel map has an entry for, and
\* its data bag holds that entry as the channel id and the custom fields of
\* that filter.
C36_ChannelOfThePair ==
    last.ev.kind \in Kinds \ {"gym"} =>
        \A i \in DOMAIN last.out :
            LET t == last.out[i]
            IN  /\ HasEntry(t.geofence_name, t.filter)
                /\ t.dts.channel_id =
                      cfg.channel_id[t.geofence_name][t.filter[1]]
                /\ t.filter \in Range(FilterNames)
                /\ \A p \in FilterNamed(t.filter).custom_dts :
                      p[1] \notin DOMAIN NewScratch => t.dts[p[1]] = p[2]
                /\ DOMAIN t.dts \ DOMAIN NewScratch
                      \subseteq Keys(FilterNamed(t.filter).custom_dts)

\* one call dispatched for two pairs with different channel ids and for two
\* filters with different custom fields, with a pair in between that the
\* channel map has no entry for
C36_Witness ==
    /\ last.ev.kind \in Kinds \ {"gym"}
    /\ \E i, j \in DOMAIN last.out :
          /\ i < j
          /\ last.out[i].dts.channel_id # last.out[j].dts.channel_id
    /\ \E i, j \in DOMAIN last.out :
          /\ last.out[i].filter # last.out[j].filter
          /\ last.out[i].dts.note # last.out[j].dts.note
    /\ \E g \in Range(last.e.geofence_list), f \in Range(FilterNames) :
          /\ ~HasEntry(g, f)
          /\ check_event(FilterNamed(f), Attr(last.ev))

\* C37: in every dispatch of a process_gym call the geofence of the data bag
\* is unset, or it is a name that the allowlist of the dispatch's filter
\* stands for, of a geofence that contains the event.
C37_GeofenceOfTriggeringFilter ==
    last.ev.kind = "gym" =>
        \A i \in DOMAIN last.out :
            LET t == last.out[i]
                f == FilterNamed(t.filter)
            IN  \/ t.dts.geofence = UnknownName
                \/ /\ Constrained(f)
                   /\ Hits(f, last.ev.pos) # {}
                   /\ t.dts.geofence = Allowed(f)[FirstHit(f, last.ev.pos)]

\* the first rule dispatched for a filter with an allowlist, which set the
\* geofence; the second rule dispatched for a filter without one, and its
\* data bag names the geofence that the first rule's filter left behind
C37_Witness ==
    /\ last.ev.kind = "gym"
    /\ Len(last.out) = 2
    /\ Constrained(FilterNamed(last.out[1].filter))
    /\ ~Constrained(FilterNamed(last.out[2].filter))
    /\ last.out[1].dts.geofence # UnknownName
    /\ last.out[2].dts.geofence = last.out[1].dts.geofence

\* this step is the processor call of the event that last' records
EggOrRaidStep == last'.ev.kind \in {"egg", "raid"} /\ Process(last'.ev)
GymStep == last'.ev.kind = "gym" /\ Process(last'.ev)

\* C38: a process_egg or process_raid call leaves every gym's cached team
\* as it is, and takes the event's team from the cache exactly when the
\* event came without one; the cached team changes only in process_gym.
C38_TeamWrittenByGymOnly ==
    /\ [][ EggOrRaidStep =>
              /\ gym_team' = gym_team
              /\ last'.e.team = IF last'.ev.current_team_id = Unknown
                                THEN gym_team[last'.ev.gym_id]
                                ELSE last'.ev.current_team_id ]_vars
    /\ [][ gym_team' # gym_team => GymStep ]_vars

\* a raid that names a team other than the one cached for its gym by an
\* earlier process_gym call was processed, and the cached team is unchanged
C38_Witness ==
    /\ last.ev.kind \in {"egg", "raid"}
    /\ last.ev.current_team_id # Unknown
    /\ last.old_team \in Teams
    /\ last.old_team # last.ev.current_team_id
    /\ last.e.team = last.ev.current_team_id
    /\ gym_team[last.ev.gym_id] = last.old_team

\* the keys of the built-in fields of a data bag
BuiltInKeys == DOMAIN NewScratch \ {"custom_dts"}

\* C39: the data bag that generate_dts builds for a stop event has the keys
\* of the built-in fields and of the event's custom fields; under every
\* built-in key, geofence, geofence_list and channel_id among them, it holds
\* the event's field, also when a custom field has that key; under every
\* other key it holds the custom field; and the call leaves the event, its
\* custom fields included, as it was.
C39_BuiltInOverCustom ==
    /\ [](last.gate = "direct" =>
            LET dts == last.out[1].dts
            IN  /\ DOMAIN dts = BuiltInKeys \cup Keys(last.e.custom_dts)
                /\ \A k \in BuiltInKeys : dts[k] = last.e[k]
                /\ \A p \in last.e.custom_dts :
                      p[1] \notin BuiltInKeys => dts[p[1]] = p[2])
    /\ [][ last'.gate = "direct" => last'.e = last.e ]_vars

\* custom fields with the keys "channel_id" and "geofence_list" and a key of
\* their own: the bag holds the event's channel id and geofence list, which
\* differ from the custom values, and the custom field of the third key
C39_Witness ==
    /\ last.gate = "direct"
    /\ \E p \in last.e.custom_dts :
          /\ p[1] = "channel_id"
          /\ p[2] # last.e.channel_id
          /\ last.out[1].dts.channel_id = last.e.channel_id
    /\ \E p \in last.e.custom_dts :
          /\ p[1] = "geofence_list"
          /\ p[2] # last.e.geofence_list
    /\ last.out[1].dts.geofence_list = last.e.geofence_list
    /\ last.out[1].dts.note = "rare"
    /\ last.e.geofence # UnknownName
====
